---- MODULE Spec2Model ----
(***************************************************************************)
(* Model of the semantic-code-edit engine: the Selector, the candidate     *)
(* resolver (EditIterator), the Editor's resolve/apply/validate loop, the  *)
(* two-layer Validator and the stage / retarget / commit tools working on  *)
(* one session and one file.                                               *)
(*                                                                         *)
(* Text is a sequence of bytes (one-character strings).  Option<T> is a    *)
(* sequence of length 0 (None) or 1 (Some).  The target language is a      *)
(* small parenthesis language standing for a tree-sitter grammar: atoms    *)
(* are the single letters "a" and "b", groups are "(" ... ")", blanks      *)
(* separate atoms.                                                         *)
(***************************************************************************)
EXTENDS Integers, Sequences, FiniteSets, TLC

\* file: the text of the target file on disk
\* staged: the session's staged operation, Option<StagedOperation>
\* last: what the last call was given, found and returned
\* cache: the file cache behind its lock, Arc<Mutex<StatsLruCache>>
VARIABLES file, staged, last, cache

vars == <<file, staged, last, cache>>

(***************************************************************************)
(* Bounds                                                                  *)
(***************************************************************************)
\* longest text a commit may write back to the file
MaxLen == 4
\* largest byte offset a caller pins an EditPosition to
MaxPin == 4
\* most get calls the cache counts
MaxRequests == 3
\* capacity the file cache is built with
CacheCap == 2
\* most characters of a text the context report is printed from
MaxChars == 3
\* most candidates one run of the resolve/apply/validate loop applies
MaxSteps == 12

(***************************************************************************)
(* Option and text helpers                                                 *)
(***************************************************************************)
None == <<>>

Some(x) == <<x>>

IsSome(o) == Len(o) = 1

IsNone(o) == Len(o) = 0

IsSpace(c) == c \in {" ", "\n"}

IsLetter(c) == c \in {"a", "b"}

\* str::trim_start / trim_end / trim
RECURSIVE TrimStart(_)
TrimStart(s) ==
    IF s # <<>> /\ IsSpace(Head(s)) THEN TrimStart(Tail(s)) ELSE s

RECURSIVE TrimEnd(_)
TrimEnd(s) ==
    IF s # <<>> /\ IsSpace(s[Len(s)]) THEN TrimEnd(SubSeq(s, 1, Len(s) - 1)) ELSE s

Trim(s) == TrimEnd(TrimStart(s))

\* str::lines().next().unwrap_or_default()
RECURSIVE FirstLine(_)
FirstLine(s) ==
    IF s = <<>> \/ Head(s) = "\n" THEN <<>> ELSE <<Head(s)>> \o FirstLine(Tail(s))

\* pat occurs in src at byte offset i (0-based)
OccursAt(src, pat, i) ==
    /\ i + Len(pat) <= Len(src)
    /\ \A k \in 1..Len(pat) : src[i + k] = pat[k]

\* str::match_indices: byte offsets of the non-overlapping matches, left to
\* right; the empty pattern matches at every offset
RECURSIVE MatchFrom(_, _, _)
MatchFrom(src, pat, i) ==
    IF i + Len(pat) > Len(src) THEN <<>>
    ELSE IF OccursAt(src, pat, i)
         THEN <<i>> \o MatchFrom(src, pat, i + (IF Len(pat) = 0 THEN 1 ELSE Len(pat)))
         ELSE MatchFrom(src, pat, i + 1)

match_indices(src, pat) == MatchFrom(src, pat, 0)

\* 0-based row of byte offset i (number of line breaks before it)
RowOf(src, i) == Cardinality({k \in 1..i : src[k] = "\n"})

(***************************************************************************)
(* The language capability: syntax errors and the structural query         *)
(***************************************************************************)
\* nesting depth in front of byte offset i (never below 0)
RECURSIVE DepthAt(_, _)
DepthAt(src, i) ==
    IF i = 0 THEN 0
    ELSE LET d == DepthAt(src, i - 1)
         IN  IF src[i] = "(" THEN d + 1
             ELSE IF src[i] = ")" /\ d > 0 THEN d - 1
             ELSE d

\* offsets (1-based) of the ")" that close nothing
UnmatchedClose(src) ==
    {i \in 1..Len(src) : src[i] = ")" /\ DepthAt(src, i - 1) = 0}

\* offsets (1-based) of the "(" that are never closed
UnmatchedOpen(src) ==
    {i \in 1..Len(src) :
        /\ src[i] = "("
        /\ \A j \in (i + 1)..Len(src) : DepthAt(src, j) >= DepthAt(src, i)}

\* offsets (1-based) of a letter glued to the letter before it
GluedAtoms(src) ==
    {i \in 2..Len(src) : IsLetter(src[i]) /\ IsLetter(src[i - 1])}

\* error and missing nodes of the parse tree, as 1-based byte offsets
ErrorNodes(src) == UnmatchedClose(src) \cup UnmatchedOpen(src) \cup GluedAtoms(src)

\* LanguageEditor::collect_errors: the rows of the error nodes
collect_errors(src) == {RowOf(src, i - 1) : i \in ErrorNodes(src)}

\* captures of the validation query named invalid.*: atom "b" inside a group
QueryViolations(src) ==
    {i \in 1..Len(src) : src[i] = "b" /\ DepthAt(src, i - 1) > 0}


\* named nodes of the parse tree as byte ranges <<start, end>>: the root, every
\* closed group and every atom
\* the closed groups "(" ... ")"
Groups(src) ==
    {r \in (0..Len(src)) \X (1..Len(src)) :
        /\ r[1] < r[2]
        /\ src[r[1] + 1] = "("
        /\ src[r[2]] = ")"
        /\ DepthAt(src, r[2]) = DepthAt(src, r[1])
        /\ \A m \in (r[1] + 1)..(r[2] - 1) : DepthAt(src, m) > DepthAt(src, r[1])}

Atoms(src) == {<<i - 1, i>> : i \in {k \in 1..Len(src) : IsLetter(src[k])}}

NamedNodes(src) == {<<0, Len(src)>>} \cup Atoms(src) \cup Groups(src)

\* every node: the named ones and the anonymous "(" and ")" tokens
AllNodes(src) ==
    NamedNodes(src) \cup {<<i - 1, i>> : i \in {k \in 1..Len(src) : src[k] \in {"(", ")"}}}

\* Node::descendant_for_byte_range over a node set: the smallest node whose
\* range contains [from, to], None when no node does
SmallestCovering(nodes, from, to) ==
    LET cover == {n \in nodes : n[1] <= from /\ to <= n[2]}
    IN  IF cover = {} THEN None
        ELSE Some(CHOOSE n \in cover : \A m \in cover : n[2] - n[1] <= m[2] - m[1])

named_descendant_for_byte_range(src, from, to) == SmallestCovering(NamedNodes(src), from, to)

descendant_for_byte_range(src, from, to) == SmallestCovering(AllNodes(src), from, to)

(***************************************************************************)
(* Messages                                                                *)
(***************************************************************************)
\* kind: which failure (or success) string; report: the validator layer that
\* produced the detail; lines: error rows or violation offsets; text: the
\* text the report prints from, or the literal search text; errors: the
\* selector's error strings
Msg(kind, report, lines, text, errors) ==
    [kind |-> kind, report |-> report, lines |-> lines, text |-> text, errors |-> errors]

NoMsg == Msg("", "", {}, <<>>, <<>>)

(***************************************************************************)
(* Selector                                                                *)
(***************************************************************************)
Operations ==
    {"InsertBefore", "InsertAfter", "InsertAfterNode", "ReplaceRange", "ReplaceExact",
     "ReplaceNode"}

InsertOperations == {"InsertBefore", "InsertAfter", "InsertAfterNode"}

Selector(operation, anchor, end) == [operation |-> operation, anchor |-> anchor, end |-> end]

\* Selector::validate testing the anchor without trimming it
SelectorErrors_untrimmed(sel) ==
    (IF sel.anchor = <<>> THEN <<"anchor cannot be empty">> ELSE <<>>)
    \o (IF sel.operation \in InsertOperations
        THEN (IF IsSome(sel.end)
              THEN <<"End is not relevant for insert operations">> ELSE <<>>)
        ELSE IF sel.operation = "ReplaceRange"
        THEN (IF IsNone(sel.end)
              THEN <<"End is required for range replacement">> ELSE <<>>)
        ELSE (IF IsSome(sel.end)
              THEN <<"end is not relevant for replace_exact operations">> ELSE <<>>))

\* Selector::validate: the list of error strings, empty when Ok(())
SelectorErrors(sel) ==
    (IF Trim(sel.anchor) = <<>> THEN <<"anchor cannot be empty">> ELSE <<>>)
    \o (IF sel.operation \in InsertOperations
        THEN (IF IsSome(sel.end)
              THEN <<"End is not relevant for insert operations">> ELSE <<>>)
        ELSE IF sel.operation = "ReplaceRange"
        THEN (IF IsNone(sel.end)
              THEN <<"End is required for range replacement">> ELSE <<>>)
        ELSE (IF IsSome(sel.end)
              THEN <<"end is not relevant for replace_exact operations">> ELSE <<>>))

validate(sel) == SelectorErrors(sel) = <<>>

(***************************************************************************)
(* Validator                                                               *)
(***************************************************************************)
\* the context layer of Validator::validate on the query's violations
validate_context(src, violations) ==
    IF violations # {} THEN Some(Msg("Invalid", "InvalidPlacement", violations, src, <<>>))
    ELSE None

\* Validator::validate on the collected error lines
validate_errors(src, errors) ==
    IF errors = {} THEN validate_context(src, QueryViolations(src))
    ELSE Some(Msg("Invalid", "SyntaxErrors", errors, src, <<>>))

\* Validator::validate: None when both layers pass, otherwise the report
Validator_validate(src) == validate_errors(src, collect_errors(src))

(***************************************************************************)
(* EditPosition and Edit                                                   *)
(***************************************************************************)
EditPosition(start_byte, end_byte) == [start_byte |-> start_byte, end_byte |-> end_byte]

Edit_new(position, content) == [position |-> position, content |-> content]

with_content(edit, content) == [edit EXCEPT !.content = content]

with_end_byte(edit, end_byte) == [edit EXCEPT !.position.end_byte = Some(end_byte)]

\* the position lies inside the buffer, with end_byte >= start_byte
InBuffer(src, pos) ==
    /\ pos.start_byte <= Len(src)
    /\ IsSome(pos.end_byte) => (pos.start_byte <= pos.end_byte[1] /\ pos.end_byte[1] <= Len(src))

\* the splice of Edit::apply: insert at start_byte, or replace [start_byte, end_byte)
Splice(src, pos, content) ==
    SubSeq(src, 1, pos.start_byte) \o content \o
    SubSeq(src, (IF IsSome(pos.end_byte) THEN pos.end_byte[1] ELSE pos.start_byte) + 1, Len(src))

\* Edit::is_valid, message() and output() on the spliced text and the
\* validator's report of it: output is present only when valid
Edit_validated(edit, result, report) ==
    [edit |-> edit, fault |-> FALSE, result |-> result, valid |-> IsNone(report),
     message |-> IF IsNone(report) THEN Msg("Valid", "", {}, result, <<>>) ELSE report[1],
     output |-> IF IsNone(report) THEN Some(result) ELSE None]

\* Edit::is_valid: the spliced text is re-parsed and validated
Edit_is_valid(edit, result) == Edit_validated(edit, result, Validator_validate(result))

\* Edit::apply then Edit::is_valid on one candidate: fault when the splice
\* cannot be made
Edit_apply(src, edit) ==
    IF ~InBuffer(src, edit.position)
    THEN [edit |-> edit, fault |-> TRUE, result |-> <<>>, valid |-> FALSE,
          message |-> NoMsg, output |-> None]
    ELSE Edit_is_valid(edit, Splice(src, edit.position, edit.content))

(***************************************************************************)
(* EditIterator: the candidate resolver                                    *)
(***************************************************************************)
\* Result<Vec<Edit>, String>
Ok(edits) == [ok |-> TRUE, edits |-> edits, err |-> NoMsg]

Err(msg) == [ok |-> FALSE, edits |-> <<>>, err |-> msg]

\* the failure strings of the resolver; text is the literal search text
NotFound(what, text) == Msg("NotFound", what, {}, text, <<>>)

Editor_new(content, selector, source_code, staged_edit) ==
    [content |-> content, selector |-> selector, source_code |-> source_code,
     staged_edit |-> staged_edit]

build_edit(ed, start_byte) == Edit_new(EditPosition(start_byte, None), ed.content)

\* after the original edits, one space variant and one newline variant per
\* original edit, pushed pairwise in the order of the originals
add_spacing_variations(edits, before) ==
    edits \o
    [k \in 1..(2 * Len(edits)) |->
        LET edit == edits[(k + 1) \div 2]
            pad == IF k % 2 = 1 THEN <<" ">> ELSE <<"\n">>
        IN  with_content(edit, IF before THEN edit.content \o pad ELSE pad \o edit.content)]

from_positions(source_code, anchor) ==
    IF match_indices(source_code, anchor) = <<>>
    THEN [ok |-> FALSE, at |-> <<>>, err |-> NotFound("From", anchor)]
    ELSE [ok |-> TRUE, at |-> match_indices(source_code, anchor), err |-> NoMsg]

to_positions(source_code, end) ==
    IF match_indices(source_code, end) = <<>>
    THEN [ok |-> FALSE, at |-> <<>>, err |-> NotFound("To", end)]
    ELSE [ok |-> TRUE, at |-> match_indices(source_code, end), err |-> NoMsg]

\* find_insert_positions answering an absent anchor with no candidates
find_insert_positions_unreported(ed, anchor, before) ==
    LET at == match_indices(ed.source_code, anchor)
        edits == [k \in 1..Len(at) |->
                     build_edit(ed, IF before THEN at[k] ELSE at[k] + Len(anchor))]
    IN  Ok(add_spacing_variations(edits, before))

find_insert_positions(ed, anchor, before) ==
    LET at == match_indices(ed.source_code, anchor)
        edits == [k \in 1..Len(at) |->
                     build_edit(ed, IF before THEN at[k] ELSE at[k] + Len(anchor))]
    IN  IF edits = <<>> THEN Err(NotFound("Anchor", anchor))
        ELSE Ok(add_spacing_variations(edits, before))

\* find_exact_matches keeping the first match only
find_exact_matches_first(ed, exact_text) ==
    LET at == match_indices(ed.source_code, exact_text)
    IN  IF at = <<>> THEN Err(NotFound("Exact", exact_text))
        ELSE Ok(<<with_end_byte(build_edit(ed, at[1]), at[1] + Len(exact_text))>>)

find_exact_matches(ed, exact_text) ==
    LET at == match_indices(ed.source_code, exact_text)
        positions == [k \in 1..Len(at) |->
                         with_end_byte(build_edit(ed, at[k]), at[k] + Len(exact_text))]
    IN  IF positions = <<>> THEN Err(NotFound("Exact", exact_text)) ELSE Ok(positions)

\* find_explicit_range comparing the end match with the start of the anchor
\* match instead of its end
find_explicit_range_from_start(ed, anchor, end) ==
    LET from == from_positions(ed.source_code, anchor)
        to == to_positions(ed.source_code, end)
        nt == Len(to.at)
        pairs == [k \in 1..(Len(from.at) * nt) |->
                     <<from.at[((k - 1) \div nt) + 1], to.at[((k - 1) % nt) + 1]>>]
        Ordered(p) == p[2] >= p[1]
        kept == SelectSeq(pairs, Ordered)
        ranges == [k \in 1..Len(kept) |->
                      with_end_byte(build_edit(ed, kept[k][1]), kept[k][2] + Len(end))]
    IN  IF ~from.ok THEN Err(from.err)
        ELSE IF ~to.ok THEN Err(to.err)
        ELSE IF ranges = <<>> THEN Err(Msg("NotFound", "Range", {}, anchor \o end, <<>>))
        ELSE Ok(ranges)

find_explicit_range(ed, anchor, end) ==
    LET from == from_positions(ed.source_code, anchor)
        to == to_positions(ed.source_code, end)
        nt == Len(to.at)
        pairs == [k \in 1..(Len(from.at) * nt) |->
                     <<from.at[((k - 1) \div nt) + 1], to.at[((k - 1) % nt) + 1]>>]
        Ordered(p) == p[2] >= p[1] + Len(anchor)
        kept == SelectSeq(pairs, Ordered)
        ranges == [k \in 1..Len(kept) |->
                      with_end_byte(build_edit(ed, kept[k][1]), kept[k][2] + Len(end))]
    IN  IF ~from.ok THEN Err(from.err)
        ELSE IF ~to.ok THEN Err(to.err)
        ELSE IF ranges = <<>> THEN Err(Msg("NotFound", "Range", {}, anchor \o end, <<>>))
        ELSE Ok(ranges)

find_range_matches(ed, anchor, end) ==
    IF IsSome(end) THEN find_explicit_range(ed, anchor, end[1])
    ELSE Err(Msg("SelectorInvalid", "", {}, <<>>, <<"End is required for range replacement">>))

\* select_ast_node answering a key that does not occur with no candidates
select_ast_node_skipping(ed, anchor) ==
    LET key == Trim(FirstLine(Trim(anchor)))
        at == match_indices(ed.source_code, key)
        NodeAt(f) ==
            IF IsSome(named_descendant_for_byte_range(ed.source_code, f, f + Len(key)))
            THEN named_descendant_for_byte_range(ed.source_code, f, f + Len(key))
            ELSE descendant_for_byte_range(ed.source_code, f, f + Len(key))
        Resolves(f) == IsSome(NodeAt(f))
        found == SelectSeq(at, Resolves)
    IN  Ok([k \in 1..Len(found) |->
               with_end_byte(build_edit(ed, NodeAt(found[k])[1][1]), NodeAt(found[k])[1][2])])

select_ast_node(ed, anchor) ==
    LET key == Trim(FirstLine(Trim(anchor)))
        from == from_positions(ed.source_code, key)
        NodeAt(f) ==
            IF IsSome(named_descendant_for_byte_range(ed.source_code, f, f + Len(key)))
            THEN named_descendant_for_byte_range(ed.source_code, f, f + Len(key))
            ELSE descendant_for_byte_range(ed.source_code, f, f + Len(key))
        Resolves(f) == IsSome(NodeAt(f))
        found == SelectSeq(from.at, Resolves)
    IN  IF ~from.ok THEN Err(from.err)
        ELSE Ok([k \in 1..Len(found) |->
                    with_end_byte(build_edit(ed, NodeAt(found[k])[1][1]),
                                  NodeAt(found[k])[1][2])])

find_after_ast_insert_positions(ed, anchor) ==
    LET nodes == select_ast_node(ed, anchor)
        edits == [k \in 1..Len(nodes.edits) |->
                     build_edit(ed, nodes.edits[k].position.end_byte[1])]
    IN  IF ~nodes.ok THEN nodes ELSE Ok(add_spacing_variations(edits, FALSE))

\* find_edits without the call of Selector::validate
find_edits_unvalidated(ed) ==
    LET sel == ed.selector
    IN  IF sel.operation = "InsertBefore" THEN find_insert_positions(ed, sel.anchor, TRUE)
        ELSE IF sel.operation = "InsertAfter" THEN find_insert_positions(ed, sel.anchor, FALSE)
        ELSE IF sel.operation = "InsertAfterNode"
        THEN find_after_ast_insert_positions(ed, sel.anchor)
        ELSE IF sel.operation = "ReplaceRange" THEN find_range_matches(ed, sel.anchor, sel.end)
        ELSE IF sel.operation = "ReplaceExact" THEN find_exact_matches(ed, sel.anchor)
        ELSE select_ast_node(ed, sel.anchor)

find_edits(ed) ==
    LET sel == ed.selector
    IN  IF ~validate(sel)
        THEN Err(Msg("SelectorInvalid", "", {}, <<>>, SelectorErrors(sel)))
        ELSE IF sel.operation = "InsertBefore" THEN find_insert_positions(ed, sel.anchor, TRUE)
        ELSE IF sel.operation = "InsertAfter" THEN find_insert_positions(ed, sel.anchor, FALSE)
        ELSE IF sel.operation = "InsertAfterNode"
        THEN find_after_ast_insert_positions(ed, sel.anchor)
        ELSE IF sel.operation = "ReplaceRange" THEN find_range_matches(ed, sel.anchor, sel.end)
        ELSE IF sel.operation = "ReplaceExact" THEN find_exact_matches(ed, sel.anchor)
        ELSE select_ast_node(ed, sel.anchor)

\* EditIterator::new with the cursor one past the first cached edit
EditIterator_new_skipping(ed) ==
    [staged_edit |-> ed.staged_edit, edits |-> None, current_index |-> 1]

\* EditIterator::new: the pinned position, no cached edits, cursor 0
EditIterator_new(ed) ==
    [staged_edit |-> ed.staged_edit, edits |-> None, current_index |-> 0]

\* ensure_text_ranges_loaded: the cache is filled once, on the first use, with
\* found = find_edits()
ensure_text_ranges_loaded(it, found) ==
    IF IsNone(it.edits) /\ found.ok THEN [it EXCEPT !.edits = Some(found.edits)] ELSE it

\* the item of Iterator::next: kind is "Edit", "Err" or "End"; it is the
\* iterator afterwards
Item(kind, edit, err, it) == [item |-> kind, edit |-> edit, err |-> err, it |-> it]

\* the end of Iterator::next handing out the current edit without advancing
\* current_index
next_cached_repeating(ed, loaded) ==
    IF loaded.current_index >= Len(loaded.edits[1])
    THEN Item("End", build_edit(ed, 0), NoMsg, loaded)
    ELSE Item("Edit", loaded.edits[1][loaded.current_index + 1], NoMsg, loaded)

\* the end of Iterator::next, on the iterator with its cache loaded
next_cached(ed, loaded) ==
    IF loaded.current_index >= Len(loaded.edits[1])
    THEN Item("End", build_edit(ed, 0), NoMsg, loaded)
    ELSE Item("Edit", loaded.edits[1][loaded.current_index + 1], NoMsg,
              [loaded EXCEPT !.current_index = loaded.current_index + 1])

\* Iterator::next below the pinned position, with found = find_edits()
next_found(ed, it, found) ==
    IF IsNone(it.edits) /\ ~found.ok
    THEN Item("Err", build_edit(ed, 0), found.err, it)
    ELSE next_cached(ed, ensure_text_ranges_loaded(it, found))

\* Iterator::next
next(ed, it) ==
    IF IsSome(it.staged_edit)
    THEN Item("Edit", Edit_new(it.staged_edit[1], ed.content), NoMsg,
              [it EXCEPT !.staged_edit = None])
    ELSE next_found(ed, it, find_edits(ed))

(***************************************************************************)
(* Editor: the resolve/apply/validate loop, preview and commit             *)
(***************************************************************************)
\* the message of Editor::prevalidate around the validator's report
PriorSyntaxError(report) ==
    IF IsNone(report) THEN None
    ELSE Some(Msg("PriorSyntaxError", report[1].report, report[1].lines, report[1].text, <<>>))

\* Editor::prevalidate: the validator run on the unmodified source
prevalidate(ed) == PriorSyntaxError(Validator_validate(ed.source_code))

\* Result<(String, Option<String>)> of Editor::edit, with the candidates the
\* loop applied, in order: error is "" for Ok
EditResult(error, message, output, applied) ==
    [error |-> error, message |-> message, output |-> output, applied |-> applied]

RECURSIVE edit_loop(_, _, _)
\* the Ok arm of the loop body: the candidate applied is a, the iterator
\* after it is it
edit_applied(ed, it, failed, a) ==
    IF a.fault THEN EditResult("ApplyFailed", NoMsg, None, Append(failed, a))
    ELSE IF a.valid THEN EditResult("", a.message, a.output, Append(failed, a))
    ELSE edit_loop(ed, it, Append(failed, a))

\* one turn of the loop on the iterator's item n, and what follows the loop
edit_item(ed, failed, n) ==
    IF n.item = "End"
    THEN (IF failed = <<>>
          THEN EditResult("NoValidEditLocations", NoMsg, None, failed)
          ELSE EditResult("", failed[1].message, None, failed))
    ELSE IF n.item = "Err" THEN EditResult("", n.err, None, failed)
    ELSE edit_applied(ed, n.it, failed, Edit_apply(ed.source_code, n.edit))

\* the for loop of Editor::edit from iterator state it, failed_edits = failed
edit_loop(ed, it, failed) == edit_item(ed, failed, next(ed, it))

\* Editor::edit without the pre-check of the unmodified source
edit_unchecked(ed) == edit_loop(ed, EditIterator_new(ed), <<>>)

\* Editor::edit with the outcome of prevalidate
edit_prevalidated(ed, failure) ==
    IF IsSome(failure) THEN EditResult("", failure[1], None, <<>>)
    ELSE edit_loop(ed, EditIterator_new(ed), <<>>)

\* Editor::edit
edit(ed) == edit_prevalidated(ed, prevalidate(ed))

FilePath == "file"

LanguageName == "paren"

StagedOperation(selector, content, edit_position) ==
    [selector |-> selector, content |-> content, file_path |-> FilePath,
     language_name |-> LanguageName, edit_position |-> edit_position]

\* the position of the candidate applied last, or the pinned position
LastApplied(ed, applied) ==
    IF applied = <<>> THEN ed.staged_edit ELSE Some(applied[Len(applied)].edit.position)

\* From<Editor> capturing the position of the candidate that won the loop
StagedFromEditor_winner(ed) ==
    StagedOperation(ed.selector, ed.content, LastApplied(ed, edit(ed).applied))

\* impl From<Editor> for StagedOperation
StagedFromEditor(ed) == StagedOperation(ed.selector, ed.content, ed.staged_edit)

\* Editor::from_staged_operation over the file as read
from_staged_operation(op, source_code) ==
    Editor_new(op.content, op.selector, source_code, op.edit_position)

\* the outcome of preview and commit: the error of edit ("" for Ok), the
\* message, the output, the StagedOperation (preview) and the candidates
\* the loop applied
Outcome(error, message, output, staged_operation, applied) ==
    [error |-> error, message |-> message, output |-> output,
     staged_operation |-> staged_operation, applied |-> applied]

\* Editor::preview on the result r of edit
preview_edited(ed, r) ==
    IF r.error = "" /\ IsSome(r.output)
    THEN Outcome("", Msg("Staged", ed.selector.operation, {}, r.output[1], <<>>), r.output,
                 Some(StagedFromEditor(ed)), r.applied)
    ELSE Outcome(r.error, r.message, r.output, None, r.applied)

\* Editor::preview: (message, Option<StagedOperation>), or the error of edit
preview(ed) == preview_edited(ed, edit(ed))

\* Editor::commit on the result r of edit
commit_edited(ed, r) ==
    IF r.error = "" /\ IsSome(r.output)
    THEN Outcome("", Msg("Committed", ed.selector.operation, {}, r.output[1], <<>>), r.output,
                 None, r.applied)
    ELSE Outcome(r.error, r.message, r.output, None, r.applied)

\* Editor::commit handing out the text of the first candidate it applied,
\* valid or not
commit_unvalidated(ed) ==
    Outcome(edit(ed).error, edit(ed).message,
            IF edit(ed).applied # <<>> /\ ~edit(ed).applied[1].fault
            THEN Some(edit(ed).applied[1].result) ELSE edit(ed).output,
            None, edit(ed).applied)

\* Editor::commit: (message, Option<output>, file_path), or the error of edit
commit(ed) == commit_edited(ed, edit(ed))

(***************************************************************************)
(* The file cache: an LRU cache with statistics, behind a lock             *)
(***************************************************************************)
CacheStats(hits, misses, total_requests) ==
    [hits |-> hits, misses |-> misses, total_requests |-> total_requests]

\* CacheStats::default
CacheStats_default == CacheStats(0, 0, 0)

\* the entries of an LruCache are <<key, value>> pairs, most recently used
\* first
HasKey(entries, key) == \E k \in 1..Len(entries) : entries[k][1] = key

IndexOf(entries, key) == CHOOSE k \in 1..Len(entries) : entries[k][1] = key

Without(entries, key) ==
    SubSeq(entries, 1, IndexOf(entries, key) - 1)
    \o SubSeq(entries, IndexOf(entries, key) + 1, Len(entries))

\* LruCache::get: the entry becomes the most recently used
LruCache_get(entries, key) ==
    IF HasKey(entries, key)
    THEN <<entries[IndexOf(entries, key)]>> \o Without(entries, key)
    ELSE entries

\* LruCache::put: the entry is replaced or added as the most recently used;
\* the least recently used is dropped beyond the capacity
LruCache_put(entries, key, value, cap) ==
    IF HasKey(entries, key) THEN <<<<key, value>>>> \o Without(entries, key)
    ELSE IF Len(entries) >= cap THEN <<<<key, value>>>> \o SubSeq(entries, 1, cap - 1)
    ELSE <<<<key, value>>>> \o entries

\* StatsLruCache::new
StatsLruCache_new(cap) == [cache |-> <<>>, cap |-> cap, stats |-> CacheStats_default]

\* StatsLruCache::get counting a request only when the key is found
StatsLruCache_get_hits_only(c, key) ==
    IF HasKey(c.cache, key)
    THEN <<Some(c.cache[IndexOf(c.cache, key)][2]),
           [c EXCEPT !.cache = LruCache_get(c.cache, key),
                     !.stats.total_requests = @ + 1,
                     !.stats.hits = @ + 1]>>
    ELSE <<None, c>>

\* StatsLruCache::get: <<the value found, the cache afterwards>>
StatsLruCache_get(c, key) ==
    IF HasKey(c.cache, key)
    THEN <<Some(c.cache[IndexOf(c.cache, key)][2]),
           [c EXCEPT !.cache = LruCache_get(c.cache, key),
                     !.stats.total_requests = @ + 1,
                     !.stats.hits = @ + 1]>>
    ELSE <<None,
           [c EXCEPT !.stats.total_requests = @ + 1,
                     !.stats.misses = @ + 1]>>

\* StatsLruCache::put
StatsLruCache_put(c, key, value) ==
    [c EXCEPT !.cache = LruCache_put(c.cache, key, value, c.cap)]

\* StatsLruCache::clear_stats
clear_stats(c) == [c EXCEPT !.stats = CacheStats_default]

\* Mutex<StatsLruCache>: the cache and the poison flag of its lock
Mutex(data, poisoned) == [data |-> data, poisoned |-> poisoned]

\* the result of a call on the cache: the error ("" for Ok), the value or
\* statistics returned and the lock afterwards
CacheResult(error, value, stats, mutex) ==
    [error |-> error, value |-> value, stats |-> stats, mutex |-> mutex]

\* cache_info returning the statistics whatever the state of the lock
cache_info_unchecked(m) == CacheResult("", None, Some(m.data.stats), m)

\* SemanticEditTools::cache_info
cache_info(m) ==
    IF m.poisoned THEN CacheResult("CacheMutexPoisoned", None, None, m)
    ELSE CacheResult("", None, Some(m.data.stats), m)

\* SemanticEditTools::clear_cache_stats
clear_cache_stats(m) ==
    IF m.poisoned THEN CacheResult("CacheMutexPoisoned", None, None, m)
    ELSE CacheResult("", None, None, [m EXCEPT !.data = clear_stats(m.data)])

\* SemanticEditTools::new: the cache is empty and its lock is sound
NewCache == Mutex(StatsLruCache_new(CacheCap), FALSE)

(***************************************************************************)
(* DiffGenerator: the report of an edit                                    *)
(***************************************************************************)
\* str::lines: the text split at line breaks, without them; a last line
\* needs no line break
RECURSIVE SplitLines(_, _)
SplitLines(text, cur) ==
    IF text = <<>> THEN (IF cur = <<>> THEN <<>> ELSE <<cur>>)
    ELSE IF Head(text) = "\n" THEN <<cur>> \o SplitLines(Tail(text), <<>>)
    ELSE SplitLines(Tail(text), Append(cur, Head(text)))

str_lines(text) == SplitLines(text, <<>>)

\* str::starts_with
starts_with(line, pat) == OccursAt(line, pat, 0)

\* number of leading lines old and new share
RECURSIVE CommonPrefixFrom(_, _, _)
CommonPrefixFrom(old, new, k) ==
    IF k < Len(old) /\ k < Len(new) /\ old[k + 1] = new[k + 1]
    THEN CommonPrefixFrom(old, new, k + 1)
    ELSE k

CommonPrefix(old, new) == CommonPrefixFrom(old, new, 0)

\* number of trailing lines old and new share behind their first p lines
RECURSIVE CommonSuffixFrom(_, _, _, _)
CommonSuffixFrom(old, new, p, k) ==
    IF Len(old) - k > p /\ Len(new) - k > p /\ old[Len(old) - k] = new[Len(new) - k]
    THEN CommonSuffixFrom(old, new, p, k + 1)
    ELSE k

CommonSuffix(old, new, p) == CommonSuffixFrom(old, new, p, 0)

\* the lines of seq from index from to index to, empty when from > to
Slice(seq, from, to) == IF from > to THEN <<>> ELSE SubSeq(seq, from, to)

Min(a, b) == IF a < b THEN a ELSE b

Max(a, b) == IF a > b THEN a ELSE b

\* the lines old loses and new gains between the shared prefix and suffix
Deleted(old, new) ==
    Slice(old, CommonPrefix(old, new) + 1,
          Len(old) - CommonSuffix(old, new, CommonPrefix(old, new)))

Inserted(old, new) ==
    Slice(new, CommonPrefix(old, new) + 1,
          Len(new) - CommonSuffix(old, new, CommonPrefix(old, new)))

\* the run of lines lost and the run gained share no line
NoSharedLine(del, ins) ==
    {del[i] : i \in 1..Len(del)} \cap {ins[j] : j \in 1..Len(ins)} = {}

\* old and new differ in one run of lines, and the run lost and the run
\* gained share no line: the line diff is then the one hunk below
SingleChange(old, new) == NoSharedLine(Deleted(old, new), Inserted(old, new))

\* one line of a hunk: kind is "Context", "Delete" or "Insert"
DiffLine(kind, text) == [kind |-> kind, text |-> text]

HunkRange(start, len) == [start |-> start, len |-> len]

\* HunkRange::range: the line numbers start .. start + len - 1
HunkRange_range(r) == r.start..(r.start + r.len - 1)

\* the hunk of one change with p shared lines before it and s after it, del
\* lines deleted and ins lines inserted: up to three lines of context on
\* each side; the old range starts at the 1-based number of its first line
Hunk(old, p, s, del, ins) ==
    [old_range |-> HunkRange(Max(p - 3, 0) + 1, Min(3, p) + Len(del) + Min(3, s)),
     lines |-> [k \in 1..Min(3, p) |-> DiffLine("Context", old[Max(p - 3, 0) + k])]
               \o [k \in 1..Len(del) |-> DiffLine("Delete", del[k])]
               \o [k \in 1..Len(ins) |-> DiffLine("Insert", ins[k])]
               \o [k \in 1..Min(3, s) |-> DiffLine("Context", old[Len(old) - s + k])]]

\* DiffOptions::new().create_patch over the lines of the two texts, for
\* texts that differ in a single change: the hunks of the patch
create_patch(old, new) ==
    IF old = new THEN <<>>
    ELSE <<Hunk(old, CommonPrefix(old, new), CommonSuffix(old, new, CommonPrefix(old, new)),
                Deleted(old, new), Inserted(old, new))>>


\* the sign a line of a hunk is printed with
Sign(kind) == IF kind = "Delete" THEN "-" ELSE IF kind = "Insert" THEN "+" ELSE " "

\* PatchFormatter::fmt_patch then str::lines: the two file headers, and per
\* hunk its location header and its lines behind their signs
fmt_patch(hunks) ==
    <<<<"-", "-", "-", " ", "original">>, <<"+", "+", "+", " ", "modified">>>>
    \o (IF hunks = <<>> THEN <<>>
        ELSE <<<<"@", "@", " ", hunks[1].old_range>>>>
             \o [k \in 1..Len(hunks[1].lines) |->
                    <<Sign(hunks[1].lines[k].kind)>> \o hunks[1].lines[k].text])

\* DiffGenerator::calculate_changed_lines: the line numbers of the hunks'
\* old ranges below content_line_count
calculate_changed_lines(hunks, content_line_count) ==
    Cardinality({n \in UNION {HunkRange_range(hunks[h].old_range) : h \in 1..Len(hunks)} :
                    n < content_line_count})

\* the header block of the report for a fragment of more than ten lines
efficiency_header(changed_fraction) ==
    <<"Edit efficiency: ", changed_fraction, "%", "\n">>
    \o (IF changed_fraction < 30 THEN <<"TIP", "\n">> ELSE <<>>)
    \o <<"\n">>

\* the body: the lines that start with none of the three header marks, each
\* followed by a line break
RECURSIVE cleaned_lines(_)
cleaned_lines(diff_lines) ==
    IF diff_lines = <<>> THEN <<>>
    ELSE (IF \/ starts_with(Head(diff_lines), <<"-", "-", "-">>)
             \/ starts_with(Head(diff_lines), <<"+", "+", "+">>)
             \/ starts_with(Head(diff_lines), <<"@", "@">>)
          THEN <<>>
          ELSE Head(diff_lines) \o <<"\n">>)
         \o cleaned_lines(Tail(diff_lines))

\* the last character is removed when it is a line break
pop_newline(text) ==
    IF text # <<>> /\ text[Len(text)] = "\n" THEN SubSeq(text, 1, Len(text) - 1) ELSE text

\* generate_diff giving the header from ten lines on
generate_report_from_ten(hunks, content_line_count) ==
    pop_newline(
        (IF content_line_count >= 10
         THEN efficiency_header(
                  (calculate_changed_lines(hunks, content_line_count) * 100)
                      \div content_line_count)
         ELSE <<>>)
        \o <<"===DIFF===", "\n">>
        \o cleaned_lines(fmt_patch(hunks)))

\* DiffGenerator::generate_diff on the patch and the number of lines of the
\* content fragment
generate_report(hunks, content_line_count) ==
    pop_newline(
        (IF content_line_count > 10
         THEN efficiency_header(
                  (calculate_changed_lines(hunks, content_line_count) * 100)
                      \div content_line_count)
         ELSE <<>>)
        \o <<"===DIFF===", "\n">>
        \o cleaned_lines(fmt_patch(hunks)))

\* DiffGenerator::generate_diff on the lines of the two texts
generate_diff_lines(old, new, content_patch) ==
    generate_report(create_patch(old, new), Len(str_lines(content_patch)))

\* DiffGenerator::generate_diff
generate_diff(source_code, output, content_patch) ==
    generate_diff_lines(str_lines(source_code), str_lines(output), content_patch)

(***************************************************************************)
(* ValidationResult: the context report and its snippets                   *)
(***************************************************************************)
\* a text in UTF-8 is a sequence of bytes: "a" is a one-byte character, "L"
\* the first byte of a longer character and "c" a continuation byte
\* str::is_char_boundary
is_char_boundary(source_code, pos) ==
    \/ pos = 0
    \/ pos = Len(source_code)
    \/ pos < Len(source_code) /\ source_code[pos + 1] # "c"

\* str::get(start..end): the slice, None unless start <= end <= len and both
\* lie on character boundaries
str_get(source_code, start, end) ==
    IF /\ start <= end
       /\ end <= Len(source_code)
       /\ is_char_boundary(source_code, start)
       /\ is_char_boundary(source_code, end)
    THEN Some(Slice(source_code, start + 1, end))
    ELSE None

\* the two loops of find_utf8_boundary from position pos
RECURSIVE boundary_backward(_, _)
boundary_backward(source_code, pos) ==
    IF pos > 0 /\ ~is_char_boundary(source_code, pos)
    THEN boundary_backward(source_code, pos - 1)
    ELSE pos

RECURSIVE boundary_forward(_, _)
boundary_forward(source_code, pos) ==
    IF pos < Len(source_code) /\ ~is_char_boundary(source_code, pos)
    THEN boundary_forward(source_code, pos + 1)
    ELSE pos

\* find_utf8_boundary searching backward whatever the direction asked for
find_utf8_boundary_backward(source_code, byte_pos, search_backward) ==
    boundary_backward(source_code, Min(byte_pos, Len(source_code)))

\* ValidationResult::find_utf8_boundary
find_utf8_boundary(source_code, byte_pos, search_backward) ==
    IF search_backward
    THEN boundary_backward(source_code, Min(byte_pos, Len(source_code)))
    ELSE boundary_forward(source_code, Min(byte_pos, Len(source_code)))

\* Option::unwrap_or
unwrap_or(o, default) == IF IsSome(o) THEN o[1] ELSE default

\* the fallback of format_errors: the slice between the nearest boundaries
widened_slice(source_code, start, end) ==
    unwrap_or(str_get(source_code, start, end), <<"<invalid UTF-8 range>">>)

\* the snippet format_errors prints for the byte range start..end of the
\* parent of a violation node
source_slice(source_code, start, end) ==
    IF end <= Len(source_code)
    THEN (IF IsSome(str_get(source_code, start, end))
          THEN str_get(source_code, start, end)[1]
          ELSE widened_slice(source_code,
                             find_utf8_boundary(source_code, start, TRUE),
                             find_utf8_boundary(source_code, Min(end, Len(source_code)),
                                                FALSE)))
    ELSE <<"<range out of bounds>">>

\* ValidationResult::format_errors: the passed line, or per violation its
\* snippet; violations are the byte ranges <<start, end>> of the parents
format_errors(is_valid, violations, source_code) ==
    IF is_valid THEN <<<<"All validations passed">>>>
    ELSE [k \in 1..Len(violations) |->
             source_slice(source_code, violations[k][1], violations[k][2])]

(***************************************************************************)
(* Inputs                                                                  *)
(***************************************************************************)
\* anchors and ends the callers pass
Anchors == {<<>>, <<" ">>, <<"a">>, <<")">>, <<" ", ")">>}

Ends == {None, Some(<<")">>)}

Selectors == {Selector(o, a, e) : o \in Operations, a \in Anchors, e \in Ends}

\* the selectors the tools are called with
ToolSelectors == {Selector(o, a, e) : o \in Operations, a \in {<<"a">>, <<")">>}, e \in Ends}

Contents == {<<"b">>, <<"a">>}

\* file texts the session starts on
Sources == {<<"(", "a", ")">>, <<"a">>, <<"(", "a">>}

\* file texts the Editor is built on directly
EditorSources ==
    {<<"(", "a", ")">>, <<"(", "a", ")", "a">>, <<"a", " ", "(", "a", ")">>, <<"(", "a">>,
     <<"(", "b", ")">>, <<"a", "\n", "a">>, <<>>}

\* positions a caller pins
PinnedPositions ==
    {None}
    \cup {Some(EditPosition(s, None)) : s \in 0..MaxPin}
    \cup {Some(EditPosition(s, Some(e))) : s \in {0, 1}, e \in {0, 1, MaxPin}}

(***************************************************************************)
(* The session and the tools                                               *)
(***************************************************************************)
\* the record of one call: the tool, its acknowledge flag, the Err it
\* returned ("" for Ok), its message, the edit output, the StagedOperation a
\* preview returned, the candidates applied, the Editor built (None when
\* none was), the text handed to write_file, and the staged operation and
\* file found when the call began
Call(tool, acknowledge, error, message, output, staged_operation, applied, editor, wrote, before, source) ==
    [tool |-> tool, acknowledge |-> acknowledge, error |-> error, message |-> message,
     output |-> output, staged_operation |-> staged_operation, applied |-> applied,
     editor |-> editor, wrote |-> wrote, before |-> before, source |-> source]

NoCall == Call("none", FALSE, "", NoMsg, None, None, <<>>, None, None, None, <<>>)

\* StagedOperation::retarget
retarget(op, selector) == [op EXCEPT !.selector = selector]

\* SemanticEditTools::modify_staged_operation with |op| op.retarget(selector)
modify_staged_operation(st, selector) ==
    IF IsSome(st) THEN Some(retarget(st[1], selector)) ELSE st

\* take_staged_operation reading the staged operation without removing it
take_staged_operation_kept(st) == <<st, st>>

\* SemanticEditTools::take_staged_operation: <<taken, session afterwards>>
take_staged_operation(st) == <<st, None>>

Init ==
    /\ file \in Sources
    /\ staged = None
    /\ last = NoCall
    /\ cache = NewCache

\* the Err a tool returns before it has an outcome of the Editor
Failed(tool, acknowledge, error) ==
    Call(tool, acknowledge, error, NoMsg, None, None, <<>>, None, None, staged, file)

\* the call a tool makes with the outcome p of the Editor ed, error being
\* the Err the tool returns and wrote the text handed to write_file
Returned(tool, ed, p, error, wrote) ==
    Call(tool, TRUE, error, IF error = "" THEN p.message ELSE NoMsg, p.output,
         p.staged_operation, p.applied, Some(ed), wrote, staged, file)

\* stage_operation with the preview p of the Editor ed
StagePreviewed(ed, p, io) ==
    /\ last = NoCall
    /\ staged' = IF ~io /\ p.error = "" /\ IsSome(p.staged_operation)
                 THEN p.staged_operation ELSE staged
    /\ last' = IF io THEN Failed("stage_operation", TRUE, "Io")
               ELSE Returned("stage_operation", ed, p, p.error, None)
    /\ UNCHANGED <<file, cache>>

\* stage_operation on the Editor ed it builds
StageEditor(ed, io) == StagePreviewed(ed, preview(ed), io)

\* the stage_operation tool: preview a new operation on the file and stage
\* it when the preview succeeds; io: reading the file fails
StageOperation(selector, content, io) ==
    StageEditor(Editor_new(content, selector, file, None), io)

\* the end of RetargetStaged::execute, with the preview p of the Editor ed
RetargetPreviewed(modified, ed, p, io) ==
    /\ last = NoCall
    /\ staged' = IF IsSome(modified) /\ ~io /\ p.error = "" /\ IsSome(p.staged_operation)
                 THEN p.staged_operation ELSE modified
    /\ last' = IF IsNone(modified) THEN Failed("retarget_staged", TRUE, "OperationNotStaged")
               ELSE IF io THEN Failed("retarget_staged", TRUE, "Io")
               ELSE Returned("retarget_staged", ed, p, p.error, None)
    /\ UNCHANGED <<file, cache>>

\* RetargetStaged::execute on the Editor ed of the modified operation
RetargetEditor(modified, ed, io) == RetargetPreviewed(modified, ed, preview(ed), io)

\* RetargetStaged::execute on the operation modify_staged_operation returns
RetargetModified(modified, io) ==
    RetargetEditor(modified, from_staged_operation(modified[1], file), io)

\* RetargetStaged::execute; io: reading the file fails
RetargetStaged(selector, io) == RetargetModified(modify_staged_operation(staged, selector), io)

\* CommitStaged::execute taking the staged operation before it looks at
\* acknowledge
CommitWritten_consuming(acknowledge, taken, ed, c, io, wfail, writes) ==
    /\ last = NoCall
    /\ writes => Len(c.output[1]) <= MaxLen
    /\ staged' = taken[2]
    /\ file' = IF writes /\ ~wfail THEN c.output[1] ELSE file
    /\ last' = IF ~acknowledge THEN Failed("commit_staged", FALSE, "OperationNotAcknowledged")
               ELSE IF IsNone(taken[1]) THEN Failed("commit_staged", TRUE, "OperationNotStaged")
               ELSE IF io THEN Failed("commit_staged", TRUE, "Io")
               ELSE Returned("commit_staged", ed, c,
                             IF c.error # "" THEN c.error
                             ELSE IF writes /\ wfail THEN "Io" ELSE "",
                             IF writes THEN c.output ELSE None)
    /\ UNCHANGED cache

\* the end of CommitStaged::execute, with the outcome c of Editor::commit;
\* writes: write_file is called
CommitWritten(acknowledge, taken, ed, c, io, wfail, writes) ==
    /\ last = NoCall
    /\ writes => Len(c.output[1]) <= MaxLen
    /\ staged' = IF acknowledge THEN taken[2] ELSE staged
    /\ file' = IF writes /\ ~wfail THEN c.output[1] ELSE file
    /\ last' = IF ~acknowledge THEN Failed("commit_staged", FALSE, "OperationNotAcknowledged")
               ELSE IF IsNone(taken[1]) THEN Failed("commit_staged", TRUE, "OperationNotStaged")
               ELSE IF io THEN Failed("commit_staged", TRUE, "Io")
               ELSE Returned("commit_staged", ed, c,
                             IF c.error # "" THEN c.error
                             ELSE IF writes /\ wfail THEN "Io" ELSE "",
                             IF writes THEN c.output ELSE None)
    /\ UNCHANGED cache

\* CommitStaged::execute with the outcome c of Editor::commit
CommitCommitted(acknowledge, taken, ed, c, io, wfail) ==
    CommitWritten(acknowledge, taken, ed, c, io, wfail,
                  acknowledge /\ IsSome(taken[1]) /\ ~io /\ c.error = "" /\ IsSome(c.output))

\* CommitStaged::execute on the Editor ed of the taken operation
CommitEditor(acknowledge, taken, ed, io, wfail) ==
    CommitCommitted(acknowledge, taken, ed, commit(ed), io, wfail)

\* CommitStaged::execute on what take_staged_operation returns
CommitTaken(acknowledge, taken, io, wfail) ==
    CommitEditor(acknowledge, taken, from_staged_operation(taken[1][1], file), io, wfail)

\* CommitStaged::execute; io: reading the file fails, wfail: write_file fails
CommitStaged(acknowledge, io, wfail) ==
    CommitTaken(acknowledge, take_staged_operation(staged), io, wfail)

\* the caller takes the response; the next call can then be made
Respond ==
    /\ last # NoCall
    /\ last' = NoCall
    /\ UNCHANGED <<file, staged, cache>>

Next ==
    \/ \E selector \in ToolSelectors, content \in Contents, io \in BOOLEAN :
          StageOperation(selector, content, io)
    \/ \E selector \in ToolSelectors, io \in BOOLEAN : RetargetStaged(selector, io)
    \/ \E acknowledge \in BOOLEAN, io \in BOOLEAN, wfail \in BOOLEAN :
          CommitStaged(acknowledge, io, wfail)
    \/ Respond

Spec == Init /\ [][Next]_vars

(***************************************************************************)
(* The Editor used directly, as a library                                  *)
(***************************************************************************)
InitEditor ==
    /\ file \in EditorSources
    /\ staged = None
    /\ last = NoCall
    /\ cache = NewCache

\* the call of the Editor ed returning the outcome p
EditorReturned(tool, ed, p) ==
    /\ last = NoCall
    /\ last' = Call(tool, TRUE, p.error, p.message, p.output, p.staged_operation, p.applied,
                    Some(ed), None, staged, file)
    /\ UNCHANGED <<file, staged, cache>>

\* Editor::preview on the Editor ed
EditorPreviewed(ed) == EditorReturned("preview", ed, preview(ed))

\* Editor::commit on the Editor ed
EditorCommitted(ed) == EditorReturned("commit", ed, commit(ed))

\* Editor::new(content, selector, language, file_path, staged_edit)?.preview()
EditorPreview(selector, content, staged_edit) ==
    EditorPreviewed(Editor_new(content, selector, file, staged_edit))

\* Editor::new(content, selector, language, file_path, staged_edit)?.commit()
EditorCommit(selector, content, staged_edit) ==
    EditorCommitted(Editor_new(content, selector, file, staged_edit))

NextEditor ==
    \/ \E selector \in Selectors, content \in Contents, staged_edit \in PinnedPositions :
          EditorPreview(selector, content, staged_edit)
    \/ \E selector \in Selectors, content \in Contents, staged_edit \in PinnedPositions :
          EditorCommit(selector, content, staged_edit)
    \/ Respond

SpecEditor == InitEditor /\ [][NextEditor]_vars

(***************************************************************************)
(* The session with its file cache                                         *)
(***************************************************************************)
\* keys and values the holders of the cache lock use
CacheKeys == {"key1", "key2", "key3"}

CacheValues == {"value1", "value2"}

\* the one operation the tools are called with beside the cache
CacheSelector == Selector("InsertAfter", <<")">>, None)

CacheContent == <<"b">>

InitCache ==
    /\ file = <<"(", "a", ")">>
    /\ staged = None
    /\ last = NoCall
    /\ cache = NewCache

\* the record of a call on the cache: the method, its key, the Err returned
\* ("" for Ok), the value or statistics returned and the lock found when
\* the call began
CacheCall(tool, key, error, value, stats, before) ==
    [tool |-> tool, key |-> key, error |-> error, value |-> value, stats |-> stats,
     before |-> before]

\* a call on the cache returning r
CacheReturned(tool, key, r) ==
    /\ last = NoCall
    /\ cache' = r.mutex
    /\ last' = CacheCall(tool, key, r.error, r.value, r.stats, cache)
    /\ UNCHANGED <<file, staged>>

\* the outcome got of StatsLruCache::get under the lock
CacheGot(key, got) ==
    CacheReturned("get", key, CacheResult("", got[1], None, [cache EXCEPT !.data = got[2]]))

\* file_cache().lock().unwrap().get(key) by a holder of the lock
CacheGet(key) ==
    /\ ~cache.poisoned
    /\ cache.data.stats.total_requests < MaxRequests
    /\ CacheGot(key, StatsLruCache_get(cache.data, key))

\* file_cache().lock().unwrap().put(key, value) by a holder of the lock
CachePut(key, value) ==
    /\ ~cache.poisoned
    /\ CacheReturned("put", key,
                     CacheResult("", None, None,
                                 [cache EXCEPT !.data = StatsLruCache_put(cache.data, key, value)]))

\* SemanticEditTools::cache_info
CacheInfo == CacheReturned("cache_info", "", cache_info(cache))

\* SemanticEditTools::clear_cache_stats
ClearCacheStats == CacheReturned("clear_cache_stats", "", clear_cache_stats(cache))

\* a holder of the lock fails while holding it: the lock is poisoned
PoisonCache ==
    /\ ~cache.poisoned
    /\ CacheReturned("poison", "", CacheResult("panic", None, None, [cache EXCEPT !.poisoned = TRUE]))

NextCache ==
    \/ \E key \in CacheKeys : CacheGet(key)
    \/ \E key \in CacheKeys, value \in CacheValues : CachePut(key, value)
    \/ CacheInfo
    \/ ClearCacheStats
    \/ PoisonCache
    \/ StageOperation(CacheSelector, CacheContent, FALSE)
    \/ RetargetStaged(CacheSelector, FALSE)
    \/ CommitStaged(TRUE, FALSE, FALSE)
    \/ Respond

SpecCache == InitCache /\ [][NextCache]_vars
(***************************************************************************)
(* DiffGenerator called on its own                                         *)
(***************************************************************************)
\* the text of the given lines, each followed by a line break
RECURSIVE Unlines(_)
Unlines(ls) == IF ls = <<>> THEN <<>> ELSE Head(ls) \o <<"\n">> \o Unlines(Tail(ls))

\* n copies of a line
Rep(line, n) == [k \in 1..n |-> line]

\* texts of a file: unchanged lines "x" around the lines an edit removes
\* (DiffSources) or adds (DiffOutputs)
ContextCounts == {0, 1, 4}

RemovedLines == {<<>>, <<<<"r">>>>, <<<<"r">>, <<"q">>>>, <<<<"-", "-", "r">>>>}

AddedLines ==
    {<<>>, <<<<"n">>>>, <<<<"+", "+", "n">>>>, Rep(<<"n">>, 11), Rep(<<"n">>, 20)}

DiffSources ==
    {Unlines(Rep(<<"x">>, pre) \o del \o Rep(<<"x">>, post)) :
        pre \in ContextCounts, del \in RemovedLines, post \in ContextCounts}

DiffOutputs ==
    {Unlines(Rep(<<"x">>, pre) \o ins \o Rep(<<"x">>, post)) :
        pre \in ContextCounts, ins \in AddedLines, post \in ContextCounts}

\* content fragments: their lines are what counts
DiffContents ==
    {Unlines(Rep(<<"n">>, n)) : n \in {0, 1, 10, 11, 20}}
    \cup {Unlines(Rep(<<"n">>, 10)) \o <<"n">>}

InitDiff ==
    /\ file \in DiffSources
    /\ staged = None
    /\ last = NoCall
    /\ cache = NewCache

\* the record of a generate_diff call: its three arguments and the report
DiffCall(source_code, output, content_patch, report) ==
    [tool |-> "generate_diff", source |-> source_code, output |-> output,
     content |-> content_patch, report |-> report]

\* generate_diff returning report
DiffReturned(output, content_patch, report) ==
    /\ last = NoCall
    /\ last' = DiffCall(file, output, content_patch, report)
    /\ UNCHANGED <<file, staged, cache>>

\* DiffGenerator::generate_diff(source_code, output, content_patch) on the
\* file and a text that differs from it in one change
GenerateDiff(output, content_patch) ==
    /\ last = NoCall
    /\ SingleChange(str_lines(file), str_lines(output))
    /\ DiffReturned(output, content_patch, generate_diff(file, output, content_patch))

NextDiff ==
    \/ \E output \in DiffOutputs, content_patch \in DiffContents :
          GenerateDiff(output, content_patch)
    \/ Respond

SpecDiff == InitDiff /\ [][NextDiff]_vars
(***************************************************************************)
(* The context report printed on its own                                   *)
(***************************************************************************)
\* the characters of the texts: of one, two and three bytes
Utf8Chars == {<<"a">>, <<"L", "c">>, <<"L", "c", "c">>}

\* the texts of at most n characters
RECURSIVE Utf8Texts(_)
Utf8Texts(n) ==
    IF n = 0 THEN {<<>>}
    ELSE Utf8Texts(n - 1) \cup {t \o c : t \in Utf8Texts(n - 1), c \in Utf8Chars}

InitReport ==
    /\ file \in Utf8Texts(MaxChars)
    /\ staged = None
    /\ last = NoCall
    /\ cache = NewCache

\* the record of a format_errors call: the result it is called on and the
\* response
ReportCall(is_valid, violations, source_code, response) ==
    [tool |-> "format_errors", is_valid |-> is_valid, violations |-> violations,
     source |-> source_code, response |-> response]

\* format_errors returning response
ReportReturned(is_valid, violations, response) ==
    /\ last = NoCall
    /\ last' = ReportCall(is_valid, violations, file, response)
    /\ UNCHANGED <<file, staged, cache>>

\* ValidationResult::format_errors on a result with one violation whose
\* parent node spans start..end
FormatErrors(is_valid, start, end) ==
    /\ last = NoCall
    /\ start <= end
    /\ is_valid => (start = 0 /\ end = 0)
    /\ ReportReturned(is_valid, IF is_valid THEN <<>> ELSE <<<<start, end>>>>,
                      format_errors(is_valid, <<<<start, end>>>>, file))

NextReport ==
    \/ \E is_valid \in BOOLEAN, start \in 0..(Len(file) + 1), end \in 0..(Len(file) + 1) :
          FormatErrors(is_valid, start, end)
    \/ Respond

SpecReport == InitReport /\ [][NextReport]_vars

(***************************************************************************)
(* The resolver on its own: the first load of the iterator's candidates    *)
(***************************************************************************)
\* sources the candidates are resolved in; all of them pass the pre-check
ResolverSources ==
    {<<"a", " ", "a", " ", "a">>, <<"(", "a", ")", " ", "a">>, <<"(", "a", ")">>, <<"a">>,
     <<"a", "\n", "a">>, <<>>}

ResolverAnchors == {<<"a">>, <<")">>, <<" ", "a">>, <<"a", " ", "a">>, <<"(">>, <<"b">>}

ResolverEnds == {None, Some(<<")">>), Some(<<"a">>), Some(<<"a", " ", "a">>)}

ResolverSelectors ==
    {Selector(o, a, e) : o \in Operations, a \in ResolverAnchors, e \in ResolverEnds}

InitResolver ==
    /\ file \in ResolverSources
    /\ staged = None
    /\ last = NoCall
    /\ cache = NewCache

\* the record of one load: the Editor, what find_edits returned and the
\* iterator afterwards
ResolverCall(ed, found, it) == [tool |-> "find_edits", editor |-> ed, found |-> found, it |-> it]

\* ensure_text_ranges_loaded on a new iterator of the Editor ed, with found =
\* find_edits()
ResolverLoaded(ed, found) ==
    /\ last = NoCall
    /\ last' = ResolverCall(ed, found, ensure_text_ranges_loaded(EditIterator_new(ed), found))
    /\ UNCHANGED <<file, staged, cache>>

\* the first load of the candidates of an Editor built on the file
FindEdits(selector, content) ==
    ResolverLoaded(Editor_new(content, selector, file, None),
                   find_edits(Editor_new(content, selector, file, None)))

NextResolver ==
    \/ \E selector \in ResolverSelectors, content \in Contents : FindEdits(selector, content)
    \/ Respond

SpecResolver == InitResolver /\ [][NextResolver]_vars

(***************************************************************************)
(* The Validator over the languages: error collection, the context query   *)
(* and the syntax error report                                             *)
(***************************************************************************)
\* most lines of a text the validator is run on
MaxLines == 5
\* longest TOML text the parser's errors are drawn over
MaxTomlLen == 4

\* lines of context printed around an error line
context_lines == 3

\* LanguageCommon: the LanguageEditor and the validation query it is built with
LanguageCommon(editor, validation_query) ==
    [editor |-> editor, validation_query |-> validation_query]

\* the languages: the default editor with and without a validation query,
\* and TOML, whose editor collects the errors of its own parser
Languages ==
    {LanguageCommon("default", Some("validation.scm")), LanguageCommon("default", None),
     LanguageCommon("toml", None)}

\* LineConverter::new: offset 0 and the offset after every newline
LineConverter_new(text) ==
    <<0>> \o SelectSeq([k \in 1..Len(text) |-> IF text[k] = "\n" THEN k ELSE 0],
                       LAMBDA x : x # 0)

\* slice::binary_search: <<found, index>>, the index 0-based
binary_search(positions, offset) ==
    IF \E k \in 1..Len(positions) : positions[k] = offset
    THEN <<TRUE, (CHOOSE k \in 1..Len(positions) : positions[k] = offset) - 1>>
    ELSE <<FALSE, Cardinality({k \in 1..Len(positions) : positions[k] < offset})>>

\* LineConverter::offset_to_line
offset_to_line(newline_positions, offset) ==
    LET found == binary_search(newline_positions, offset)
    IN  IF found[1] THEN found[2]
        ELSE IF found[2] = 0 THEN 0 ELSE found[2] - 1

\* LineConverter::range_to_lines: the lines of the Range { start, end }
range_to_lines(newline_positions, start_offset, end_offset) ==
    offset_to_line(newline_positions, start_offset)
        ..(offset_to_line(newline_positions, end_offset) - 1)

\* TomlEditor::collect_errors on the errors the TOML parser reports, each a
\* byte range <<start, end>>
toml_collect_errors(content, parser_errors) ==
    UNION {range_to_lines(LineConverter_new(content), parser_errors[k][1], parser_errors[k][2]) :
              k \in 1..Len(parser_errors)}

\* language.editor().collect_errors(tree, content)
editor_collect_errors(language, content, parser_errors) ==
    IF language.editor = "toml" THEN toml_collect_errors(content, parser_errors)
    ELSE collect_errors(content)

\* the captures of the validation query as <<name, byte offset>>, the name in
\* its dot-separated parts
QueryCaptures(src) ==
    {<<<<"invalid", "b", "in", "group">>, i>> : i \in QueryViolations(src)}
    \cup {<<<<"atom">>, i>> : i \in {k \in 1..Len(src) : src[k] = "a"}}

\* ContextValidator::validate_tree: the captures named invalid.*
validate_tree(source_code) ==
    LET violations == {v \in QueryCaptures(source_code) : Head(v[1]) = "invalid"}
    IN  [is_valid |-> violations = {}, violations |-> violations, source_code |-> source_code]

\* the lines the syntax error report prints: the window around each error line
context_window(lines_with_errors) ==
    UNION {(IF line >= context_lines THEN line - context_lines ELSE 0)
               ..(line + context_lines - 1) : line \in lines_with_errors}

\* the body of the syntax error report: the numbered lines, error lines marked
syntax_error_report(content, lines_with_errors) ==
    LET ls == str_lines(content)
        InWindow(index) == index \in context_window(lines_with_errors)
        printed == SelectSeq([k \in 1..Len(ls) |-> k - 1], InWindow)
    IN  [k \in 1..Len(printed) |->
            [display_index |-> printed[k] + 1,
             marker |-> IF printed[k] \in lines_with_errors THEN "->" ELSE "  ",
             line |-> ls[printed[k] + 1]]]

\* what Validator::validate returns, whether it ran the query, and the lines
\* its syntax error report prints
Validated(report, queried, printed) ==
    [report |-> report, queried |-> queried, printed |-> printed]

\* the context layer of Validator::validate
validate_query(language, content) ==
    IF IsSome(language.validation_query)
    THEN Validated(validate_context(content, {v[2] : v \in validate_tree(content).violations}),
                   TRUE, <<>>)
    ELSE Validated(None, FALSE, <<>>)

\* Validator::validate running the context layer before it looks at the errors
validate_language_query_first(language, content, errors) ==
    IF IsSome(validate_query(language, content).report) \/ errors = {}
    THEN validate_query(language, content)
    ELSE Validated(Some(Msg("Invalid", "SyntaxErrors", errors, content, <<>>)), TRUE,
                   syntax_error_report(content, errors))

\* Validator::validate of a language on the collected error lines
validate_language(language, content, errors) ==
    IF errors = {} THEN validate_query(language, content)
    ELSE Validated(Some(Msg("Invalid", "SyntaxErrors", errors, content, <<>>)), FALSE,
                   syntax_error_report(content, errors))

\* the lines the texts are made of: an atom, a stray ")" and an atom that the
\* query rejects
ValidatorLineTexts == {<<"a">>, <<")">>, <<"(", "b", ")">>}

ValidatorTexts ==
    {Unlines(ls) : ls \in UNION {[1..n -> ValidatorLineTexts] : n \in 0..MaxLines}}

\* errors the TOML parser may report on a text: at most two byte ranges, on
\* the texts of at most MaxTomlLen bytes
ParserErrors(content) ==
    LET ranges == {r \in (0..Len(content)) \X (0..Len(content)) : r[1] <= r[2]}
    IN  IF Len(content) > MaxTomlLen THEN {}
        ELSE {<<>>} \cup {<<r>> : r \in ranges} \cup {<<r, q>> : r \in ranges, q \in ranges}

InitValidator ==
    /\ file \in ValidatorTexts
    /\ staged = None
    /\ last = NoCall
    /\ cache = NewCache

\* the record of one validation: the language, the text, the parser's errors
\* (TOML), the collected error lines and what validate returned
ValidatorCall(language, content, parser_errors, errors, validated) ==
    [tool |-> "validate", language |-> language, content |-> content,
     parser_errors |-> parser_errors, errors |-> errors, report |-> validated.report,
     queried |-> validated.queried, printed |-> validated.printed]

\* Validator::validate returning validated on the collected errors
ValidateReturned(language, parser_errors, errors, validated) ==
    /\ last = NoCall
    /\ last' = ValidatorCall(language, file, parser_errors, errors, validated)
    /\ UNCHANGED <<file, staged, cache>>

\* Validator::validate on the collected errors
ValidateCollected(language, parser_errors, errors) ==
    ValidateReturned(language, parser_errors, errors, validate_language(language, file, errors))

\* Validator::validate(language, tree, content) for a language with the
\* default editor
Validate(language) ==
    /\ language.editor = "default"
    /\ ValidateCollected(language, <<>>, editor_collect_errors(language, file, <<>>))

\* Validator::validate(language, tree, content) for TOML, the parser
\* reporting parser_errors
ValidateToml(language, parser_errors) ==
    /\ language.editor = "toml"
    /\ ValidateCollected(language, parser_errors,
                         editor_collect_errors(language, file, parser_errors))

NextValidator ==
    \/ \E language \in Languages : Validate(language)
    \/ \E language \in Languages, parser_errors \in ParserErrors(file) :
          ValidateToml(language, parser_errors)
    \/ Respond

SpecValidator == InitValidator /\ [][NextValidator]_vars

(***************************************************************************)
(* The resolve/apply/validate loop, one candidate at a time                *)
(***************************************************************************)
\* the state of one run of Editor::edit: the Editor, the iterator, the
\* failed_edits so far, the candidates applied so far, where each came from
\* (0: the pinned position, k: the k-th cached edit), whether the loop is
\* still running, and the result once it is not
LoopCall(ed, it, failed, applied, indices, pc, result) ==
    [tool |-> "edit", editor |-> ed, it |-> it, failed |-> failed, applied |-> applied,
     indices |-> indices, pc |-> pc, result |-> result]

NoResult == EditResult("", NoMsg, None, <<>>)

InitLoop ==
    /\ file \in EditorSources
    /\ staged = None
    /\ last = NoCall
    /\ cache = NewCache

\* Editor::edit up to the loop, with the outcome of prevalidate
LoopPrevalidated(ed, failure) ==
    /\ last = NoCall
    /\ last' = IF IsSome(failure)
               THEN LoopCall(ed, EditIterator_new(ed), <<>>, <<>>, <<>>, "done",
                             EditResult("", failure[1], None, <<>>))
               ELSE LoopCall(ed, EditIterator_new(ed), <<>>, <<>>, <<>>, "loop", NoResult)
    /\ UNCHANGED <<file, staged, cache>>

\* Editor::edit entered on a new Editor
LoopStart(selector, content, staged_edit) ==
    LoopPrevalidated(Editor_new(content, selector, file, staged_edit),
                     prevalidate(Editor_new(content, selector, file, staged_edit)))

\* the Ok arm of the loop body: the candidate of item n applied as a
LoopApplied(n, a) ==
    IF a.fault
    THEN LoopCall(last.editor, n.it, last.failed, Append(last.applied, a),
                  Append(last.indices, IF IsSome(last.it.staged_edit) THEN 0
                                       ELSE n.it.current_index),
                  "done", EditResult("ApplyFailed", NoMsg, None, Append(last.applied, a)))
    ELSE IF a.valid
    THEN LoopCall(last.editor, n.it, last.failed, Append(last.applied, a),
                  Append(last.indices, IF IsSome(last.it.staged_edit) THEN 0
                                       ELSE n.it.current_index),
                  "done", EditResult("", a.message, a.output, Append(last.applied, a)))
    ELSE LoopCall(last.editor, n.it, Append(last.failed, a), Append(last.applied, a),
                  Append(last.indices, IF IsSome(last.it.staged_edit) THEN 0
                                       ELSE n.it.current_index),
                  "loop", NoResult)

\* one turn of the for loop on the item n of the iterator
LoopItem(n) ==
    IF n.item = "End"
    THEN [last EXCEPT !.it = n.it, !.pc = "done",
          !.result = IF last.failed = <<>>
                     THEN EditResult("NoValidEditLocations", NoMsg, None,
                                     last.applied)
                     ELSE EditResult("", last.failed[1].message, None,
                                     last.applied)]
    ELSE IF n.item = "Err"
    THEN [last EXCEPT !.it = n.it, !.pc = "done",
          !.result = EditResult("", n.err, None, last.applied)]
    ELSE LoopApplied(n, Edit_apply(last.editor.source_code, n.edit))

\* one turn of the for loop of Editor::edit
LoopStep ==
    /\ last # NoCall
    /\ last.pc = "loop"
    /\ Len(last.applied) < MaxSteps
    /\ last' = LoopItem(next(last.editor, last.it))
    /\ UNCHANGED <<file, staged, cache>>

\* the caller takes the result of a finished run
LoopReturn ==
    /\ last # NoCall
    /\ last.pc = "done"
    /\ last' = NoCall
    /\ UNCHANGED <<file, staged, cache>>

\* positions pinned for a run of the loop: none, an insertion at the start, a
\* replacement of the first byte and an insertion beyond the end
LoopPositions ==
    {None, Some(EditPosition(0, None)), Some(EditPosition(0, Some(1))),
     Some(EditPosition(MaxPin + 2, None))}

NextLoop ==
    \/ \E selector \in ToolSelectors, content \in Contents, staged_edit \in LoopPositions :
          LoopStart(selector, content, staged_edit)
    \/ LoopStep
    \/ LoopReturn

\* a turn of the loop can be taken
LoopEnabled == last # NoCall /\ last.pc = "loop" /\ Len(last.applied) < MaxSteps

\* the loop has no suspension point, so a turn that can be taken is taken:
\* weak fairness of LoopStep, with its enabling condition written out
SpecLoop ==
    InitLoop /\ [][NextLoop]_vars /\ ([]<>(~LoopEnabled) \/ []<><<LoopStep>>_vars)

(***************************************************************************)
(* The session used through its store as well as through the tools        *)
(***************************************************************************)
\* operations stored in the session directly: a selector, a content and a
\* pinned position or none
StoredOperations ==
    {StagedOperation(Selector(o, <<"a">>, None), <<"b">>, pos) :
        o \in {"InsertBefore", "ReplaceExact"}, pos \in LoopPositions}

\* SemanticEditTools::stage_operation(None, Some(op)): the session's staged
\* operation is replaced
StoreStaged(op) ==
    /\ last = NoCall
    /\ staged' = Some(op)
    /\ UNCHANGED <<file, last, cache>>

NextSession ==
    \/ \E op \in StoredOperations : StoreStaged(op)
    \/ \E selector \in ToolSelectors, io \in BOOLEAN : RetargetStaged(selector, io)
    \/ \E acknowledge \in BOOLEAN, io \in BOOLEAN, wfail \in BOOLEAN :
          CommitStaged(acknowledge, io, wfail)
    \/ Respond

SpecSession == Init /\ [][NextSession]_vars

(***************************************************************************)
(* Two callers on one session                                              *)
(***************************************************************************)
\* most tool calls the two callers begin
MaxCalls == 4

Callers == {1, 2}

\* selectors the callers stage and retarget with
CallerSelectors ==
    {Selector(o, a, None) : o \in {"InsertAfter", "ReplaceExact"}, a \in {<<"a">>, <<")">>}}

\* what a caller holds between two accesses of the session or the file: its
\* place in the tool, the operation it read or is about to stage, and the
\* text it is about to write
Local(pc, op, output) == [pc |-> pc, op |-> op, output |-> output]

Idle == Local("idle", None, None)

\* the callers, and the count of calls begun, of operations a stage request
\* staged and of operations a commit took
Session(callers, calls, stages, takes) ==
    [tool |-> "callers", callers |-> callers, calls |-> calls, stages |-> stages,
     takes |-> takes]

InitCallers ==
    /\ file \in Sources
    /\ staged = None
    /\ last = Session([c \in Callers |-> Idle], 0, 0, 0)
    /\ cache = NewCache

\* caller c moves to the local state l
Moved(c, l) == [last EXCEPT !.callers[c] = l]

Begins(c) == last.callers[c].pc = "idle" /\ last.calls < MaxCalls

Begun(c, l) == [Moved(c, l) EXCEPT !.calls = last.calls + 1]

\* stage_operation with the preview p: the session is written when the
\* preview returned an operation
CallerStagePreviewed(c, p) ==
    /\ Begins(c)
    /\ staged' = IF p.error = "" /\ IsSome(p.staged_operation)
                 THEN p.staged_operation ELSE staged
    /\ last' = [Begun(c, Idle) EXCEPT
                   !.stages = IF p.error = "" /\ IsSome(p.staged_operation)
                              THEN last.stages + 1 ELSE last.stages]
    /\ UNCHANGED <<file, cache>>

\* the stage_operation tool called by c
CallerStage(c, selector, content) ==
    CallerStagePreviewed(c, preview(Editor_new(content, selector, file, None)))

\* RetargetStaged::execute, the update inside modify_staged_operation
RetargetUpdate(c, selector) ==
    /\ Begins(c)
    /\ staged' = modify_staged_operation(staged, selector)
    /\ last' = Begun(c, Local("retarget_get", None, None))
    /\ UNCHANGED <<file, cache>>

\* the get_staged_operation modify_staged_operation ends with; None is
\* OperationNotStaged
RetargetGet(c) ==
    /\ last.callers[c].pc = "retarget_get"
    /\ last' = Moved(c, IF IsSome(staged) THEN Local("retarget_preview", staged, None)
                        ELSE Idle)
    /\ UNCHANGED <<file, staged, cache>>

\* RetargetStaged::execute with the preview p of the operation it read
RetargetPreviewing(c, p) ==
    /\ last.callers[c].pc = "retarget_preview"
    /\ last' = Moved(c, IF p.error = "" /\ IsSome(p.staged_operation)
                        THEN Local("retarget_stage", p.staged_operation, None)
                        ELSE Idle)
    /\ UNCHANGED <<file, staged, cache>>

\* the file is read and the operation previewed
RetargetPreview(c) ==
    RetargetPreviewing(c, preview(from_staged_operation(last.callers[c].op[1], file)))

\* state.stage_operation(None, staged_operation) of the preview result
RetargetStage(c) ==
    /\ last.callers[c].pc = "retarget_stage"
    /\ staged' = last.callers[c].op
    /\ last' = Moved(c, Idle)
    /\ UNCHANGED <<file, cache>>

\* CommitStaged::execute acknowledged, up to take_staged_operation
CommitTake(c) ==
    /\ Begins(c)
    /\ staged' = take_staged_operation(staged)[2]
    /\ last' = IF IsSome(staged)
               THEN [Begun(c, Local("commit_edit", take_staged_operation(staged)[1], None))
                        EXCEPT !.takes = last.takes + 1]
               ELSE Begun(c, Idle)
    /\ UNCHANGED <<file, cache>>

\* CommitStaged::execute with the outcome r of Editor::commit
CommitEdited(c, r) ==
    /\ last.callers[c].pc = "commit_edit"
    /\ last' = Moved(c, IF r.error = "" /\ IsSome(r.output)
                        THEN Local("commit_write", None, r.output) ELSE Idle)
    /\ UNCHANGED <<file, staged, cache>>

\* the file is read and the taken operation committed
CommitEdit(c) ==
    CommitEdited(c, commit(from_staged_operation(last.callers[c].op[1], file)))

\* write_file(output_path, output)
CommitWrite(c) ==
    /\ last.callers[c].pc = "commit_write"
    /\ Len(last.callers[c].output[1]) <= MaxLen
    /\ file' = last.callers[c].output[1]
    /\ last' = Moved(c, Idle)
    /\ UNCHANGED <<staged, cache>>

NextCallers ==
    \E c \in Callers :
        \/ \E selector \in CallerSelectors, content \in Contents :
              CallerStage(c, selector, content)
        \/ \E selector \in CallerSelectors : RetargetUpdate(c, selector)
        \/ RetargetGet(c)
        \/ RetargetPreview(c)
        \/ RetargetStage(c)
        \/ CommitTake(c)
        \/ CommitEdit(c)
        \/ CommitWrite(c)

SpecCallers == InitCallers /\ [][NextCallers]_vars

(***************************************************************************)
(* Properties                                                              *)
(***************************************************************************)
\* the text passes both validator layers, stated on the language directly
PassesValidation(text) == collect_errors(text) = {} /\ QueryViolations(text) = {}

\* the call built an Editor and ran the loop through the Editor's API
EditorCall == last.tool \in {"preview", "commit"} /\ IsSome(last.editor)

\* the candidates in the order the iterator yields them: the pinned
\* position, then the resolver's edits
CandidateOrder(ed) ==
    (IF IsSome(ed.staged_edit) THEN <<Edit_new(ed.staged_edit[1], ed.content)>> ELSE <<>>)
    \o find_edits(ed).edits

\* C1: commit_staged hands write_file only the output of a candidate whose
\* result passes both validator layers; when the unmodified file fails
\* validation, resolution fails or every candidate is invalid, nothing is
\* written and the file is as it was.
C1_WriteOnlyValidated ==
    last.tool = "commit_staged" =>
        /\ IsSome(last.wrote) =>
              /\ PassesValidation(last.wrote[1])
              /\ PassesValidation(last.source)
              /\ last.applied # <<>>
              /\ LET won == last.applied[Len(last.applied)].edit
                 IN  last.wrote[1] = Splice(last.source, won.position, won.content)
        /\ IsNone(last.wrote) => file = last.source
        /\ (\/ ~PassesValidation(last.source)
            \/ last.message.kind \in {"NotFound", "SelectorInvalid"}
            \/ \A k \in 1..Len(last.applied) :
                  ~PassesValidation(Splice(last.source, last.applied[k].edit.position,
                                           last.applied[k].edit.content)))
           => IsNone(last.wrote) /\ file = last.source

\* a commit wrote the output of a candidate tried after rejected ones
C1_Witness ==
    /\ last.tool = "commit_staged"
    /\ IsSome(last.wrote)
    /\ Len(last.applied) >= 2
    /\ file = last.wrote[1]

\* C2: when the unmodified source has a syntax error, preview returns the
\* prior-syntax-error message with the error lines and no staged operation,
\* whatever the selector and the pinned position, and applies no candidate.
C2_PriorSyntaxErrorAborts ==
    (last.tool = "preview" /\ IsSome(last.editor) /\ collect_errors(last.source) # {}) =>
        /\ last.error = ""
        /\ last.message.kind = "PriorSyntaxError"
        /\ last.message.report = "SyntaxErrors"
        /\ last.message.lines = collect_errors(last.source)
        /\ IsNone(last.staged_operation)
        /\ IsNone(last.output)
        /\ last.applied = <<>>

\* a preview of a broken file with an invalid selector and a pinned position
C2_Witness ==
    /\ last.tool = "preview"
    /\ IsSome(last.editor)
    /\ collect_errors(last.source) # {}
    /\ ~validate(last.editor[1].selector)
    /\ IsSome(last.editor[1].staged_edit)
    /\ last.message.kind = "PriorSyntaxError"

\* C3: the loop applies the candidates in iterator order and returns the
\* output of the first that validates: the applied candidates are a prefix
\* of the order, all but the last are invalid, and the last is the output.
C3_FirstValidInOrder ==
    (EditorCall /\ IsSome(last.output)) =>
        LET ed == last.editor[1]
            order == CandidateOrder(ed)
            n == Len(last.applied)
        IN  /\ n >= 1
            /\ n <= Len(order)
            /\ \A k \in 1..n : last.applied[k].edit = order[k]
            /\ \A k \in 1..(n - 1) :
                  ~PassesValidation(Splice(ed.source_code, order[k].position, order[k].content))
            /\ PassesValidation(Splice(ed.source_code, order[n].position, order[n].content))
            /\ last.output = Some(Splice(ed.source_code, order[n].position, order[n].content))

\* the winner is the fifth candidate of a selector with several occurrences
C3_Witness ==
    /\ EditorCall
    /\ IsSome(last.output)
    /\ Len(last.applied) >= 5
    /\ IsNone(last.editor[1].staged_edit)

\* C4: when at least one candidate was applied and none validated, preview
\* and commit return the failure message of the first candidate tried, with
\* no output and no staged operation.
C4_FirstFailureMessage ==
    (/\ EditorCall
     /\ last.error = ""
     /\ last.applied # <<>>
     /\ \A k \in 1..Len(last.applied) : ~last.applied[k].valid) =>
        /\ last.message = last.applied[1].message
        /\ IsNone(last.output)
        /\ IsNone(last.staged_operation)

\* C5: the StagedOperation a successful preview returns carries the
\* EditPosition of the candidate that won the loop.
C5_StagedCarriesWinner ==
    (last.tool = "preview" /\ IsSome(last.staged_operation)) =>
        last.staged_operation[1].edit_position =
            Some(last.applied[Len(last.applied)].edit.position)

C7_FailedRetargetKeepsStaged ==
    (last.tool = "retarget_staged" /\ (last.error # "" \/ IsNone(last.staged_operation))) =>
        staged = last.before

\* C8: an acknowledged commit_staged consumes the staged operation whether
\* it wrote, was rejected or failed, and an acknowledged commit_staged that
\* finds none fails with OperationNotStaged.
C8_CommitConsumesStaged ==
    (last.tool = "commit_staged" /\ last.acknowledge) =>
        /\ staged = None
        /\ IsNone(last.before) =>
              (last.error = "OperationNotStaged" /\ IsNone(last.wrote) /\ file = last.source)

\* a commit that found an operation and failed on an infrastructure error
C8_Witness ==
    /\ last.tool = "commit_staged"
    /\ last.acknowledge
    /\ IsSome(last.before)
    /\ last.error = "Io"
    /\ staged = None

\* C9: Selector::validate succeeds exactly when the anchor has a non-blank
\* byte and end is present exactly for ReplaceRange; the resolver reports
\* the selector's errors exactly then.
C9_ValidateIff ==
    IsSome(last.editor) =>
        LET sel == last.editor[1].selector
            wellFormed ==
                /\ \E k \in 1..Len(sel.anchor) : ~IsSpace(sel.anchor[k])
                /\ IsSome(sel.end) <=> sel.operation = "ReplaceRange"
        IN  /\ validate(sel) <=> wellFormed
            /\ (EditorCall /\ PassesValidation(last.source) /\ IsNone(last.editor[1].staged_edit))
                  => (last.message.kind = "SelectorInvalid" <=> ~wellFormed)

\* a blank anchor with an otherwise well-formed selector is rejected
C9_Witness ==
    /\ EditorCall
    /\ last.editor[1].selector.anchor = <<" ">>
    /\ last.editor[1].selector.operation = "ReplaceRange"
    /\ IsSome(last.editor[1].selector.end)
    /\ last.message.kind = "SelectorInvalid"
    /\ last.message.errors = <<"anchor cannot be empty">>

SearchKey(sel) ==
    IF sel.operation \in {"InsertAfterNode", "ReplaceNode"}
    THEN Trim(FirstLine(Trim(sel.anchor)))
    ELSE sel.anchor

\* the search text of the Editor that does not occur in its source: the
\* key of the anchor, or the end of a range whose anchor occurs
MissingText(ed) ==
    IF match_indices(ed.source_code, SearchKey(ed.selector)) = <<>>
    THEN Some(SearchKey(ed.selector))
    ELSE IF /\ ed.selector.operation = "ReplaceRange"
            /\ IsSome(ed.selector.end)
            /\ match_indices(ed.source_code, ed.selector.end[1]) = <<>>
    THEN ed.selector.end
    ELSE None

\* the call returned normally with the not-found message carrying text, no
\* output and no staged operation
NotFoundReported(text) ==
    /\ last.error = ""
    /\ last.message.kind = "NotFound"
    /\ last.message.text = text
    /\ IsNone(last.output)
    /\ IsNone(last.staged_operation)

C12_UnacknowledgedOrUnstaged ==
    last.tool = "commit_staged" =>
        /\ ~last.acknowledge =>
              /\ last.error = "OperationNotAcknowledged"
              /\ staged = last.before
              /\ IsNone(last.wrote)
              /\ file = last.source
        /\ (last.acknowledge /\ IsNone(last.before)) =>
              /\ last.error = "OperationNotStaged"
              /\ IsNone(last.wrote)
              /\ file = last.source

\* an unacknowledged commit found an operation staged and left it there
C12_Witness ==
    /\ last.tool = "commit_staged"
    /\ ~last.acknowledge
    /\ last.error = "OperationNotAcknowledged"
    /\ IsSome(last.before)
    /\ staged = last.before

\* C19: with a pinned EditPosition the pinned position is the first and the
\* only candidate: when it is rejected no candidate of the selector is
\* tried after it.
C19_PinnedIsSoleCandidate ==
    (EditorCall /\ IsSome(last.editor[1].staged_edit) /\ last.applied # <<>>) =>
        /\ Len(last.applied) = 1
        /\ last.applied[1].edit.position = last.editor[1].staged_edit[1]

\* C20: for InsertBefore and InsertAfter with n >= 1 occurrences of the
\* anchor the resolver yields 3n candidates: the n unpadded ones in source
\* order, then the n space-padded, then the n newline-padded, each group in
\* source order.
C20_SpacingGroupedByKind ==
    (/\ EditorCall
     /\ last.editor[1].selector.operation \in {"InsertBefore", "InsertAfter"}
     /\ validate(last.editor[1].selector)
     /\ match_indices(last.source, last.editor[1].selector.anchor) # <<>>) =>
        LET ed == last.editor[1]
            before == ed.selector.operation = "InsertBefore"
            at == match_indices(ed.source_code, ed.selector.anchor)
            n == Len(at)
            pos(k) == IF before THEN at[k] ELSE at[k] + Len(ed.selector.anchor)
            padded(pad) == IF before THEN ed.content \o pad ELSE pad \o ed.content
            found == find_edits(ed)
        IN  /\ found.ok
            /\ Len(found.edits) = 3 * n
            /\ \A k \in 1..n :
                  /\ found.edits[k] = Edit_new(EditPosition(pos(k), None), ed.content)
                  /\ found.edits[n + k] = Edit_new(EditPosition(pos(k), None), padded(<<" ">>))
                  /\ found.edits[2 * n + k] =
                        Edit_new(EditPosition(pos(k), None), padded(<<"\n">>))

\* the tools of the session
SessionTools == {"stage_operation", "retarget_staged", "commit_staged"}

\* C13: once the lock of the file cache is poisoned, every cache_info and
\* clear_cache_stats call returns the lock-poisoned error and changes
\* nothing, the lock stays poisoned, and stage, retarget and commit calls
\* neither fail on the lock nor touch the cache.
C13_PoisonedLockIsAnError ==
    [][/\ cache.poisoned => cache'.poisoned
       /\ (cache.poisoned /\ last = NoCall /\ last'.tool \in {"cache_info", "clear_cache_stats"}) =>
             /\ last'.error = "CacheMutexPoisoned"
             /\ IsNone(last'.stats)
             /\ cache' = cache
       /\ (last = NoCall /\ last'.tool \in SessionTools) =>
             /\ cache' = cache
             /\ last'.error \notin {"CacheMutexPoisoned", "FileCachePoisoned"}]_vars

\* statistics were counted, the lock was poisoned and cache_info failed
C13_Witness ==
    /\ cache.poisoned
    /\ cache.data.stats.total_requests >= 2
    /\ last.tool = "cache_info"
    /\ last.error = "CacheMutexPoisoned"

\* C18: total_requests = hits + misses always; a get adds one to
\* total_requests and one to hits when the key is cached, otherwise one to
\* misses; put changes no counter; clear_stats sets the three counters to
\* zero and keeps the cached entries.
C18_CacheCounters ==
    [][/\ cache'.data.stats.total_requests
             = cache'.data.stats.hits + cache'.data.stats.misses
       /\ (last = NoCall /\ last'.tool = "get") =>
             /\ cache'.data.stats.total_requests = cache.data.stats.total_requests + 1
             /\ IF \E k \in 1..Len(cache.data.cache) : cache.data.cache[k][1] = last'.key
                THEN /\ cache'.data.stats.hits = cache.data.stats.hits + 1
                     /\ cache'.data.stats.misses = cache.data.stats.misses
                     /\ IsSome(last'.value)
                ELSE /\ cache'.data.stats.misses = cache.data.stats.misses + 1
                     /\ cache'.data.stats.hits = cache.data.stats.hits
                     /\ IsNone(last'.value)
       /\ (last = NoCall /\ last'.tool = "put") =>
             cache'.data.stats = cache.data.stats
       /\ (last = NoCall /\ last'.tool = "clear_cache_stats" /\ last'.error = "") =>
             /\ cache'.data.stats = CacheStats(0, 0, 0)
             /\ cache'.data.cache = cache.data.cache]_vars

\* a get missed a key that was cached before and dropped as the least
\* recently used
C18_Witness ==
    /\ last.tool = "get"
    /\ last.key = "key1"
    /\ IsNone(last.value)
    /\ Len(cache.data.cache) = CacheCap
    /\ cache.data.stats.hits >= 1
    /\ cache.data.stats.misses >= 2

\* number of lines of a text: its line breaks, and a last line without one
CountLines(text) ==
    Cardinality({k \in 1..Len(text) : text[k] = "\n"})
    + (IF text # <<>> /\ text[Len(text)] # "\n" THEN 1 ELSE 0)

\* the report starts with the efficiency header
HasHeader(report) == report # <<>> /\ report[1] = "Edit efficiency: "

\* the tip line follows the first line of the header
HasTip(report) == Len(report) >= 5 /\ report[5] = "TIP"

\* C14: the report starts with the efficiency header exactly when the
\* content fragment has more than 10 lines; the percentage is
\* (changed_lines * 100) / content_line_count in integer arithmetic and the
\* tip follows the header exactly when the percentage is below 30.
C14_EfficiencyHeader ==
    last.tool = "generate_diff" =>
        /\ HasHeader(last.report) <=> CountLines(last.content) > 10
        /\ HasHeader(last.report) =>
              /\ last.report[2] =
                    (calculate_changed_lines(
                         create_patch(str_lines(last.source), str_lines(last.output)),
                         CountLines(last.content)) * 100) \div CountLines(last.content)
              /\ last.report[3] = "%"
              /\ last.report[4] = "\n"
              /\ HasTip(last.report) <=> last.report[2] < 30
        /\ ~HasHeader(last.report) => last.report[1] = "===DIFF==="

\* a fragment of eleven lines with a percentage of 30 or more and no tip
C14_Witness ==
    /\ last.tool = "generate_diff"
    /\ CountLines(last.content) = 11
    /\ HasHeader(last.report)
    /\ last.report[2] >= 30
    /\ ~HasTip(last.report)

\* C15: for a content fragment of 20 lines and an edit that touches two
\* lines of the original, the header reports 10% with the tip.
C15_TwoOfTwentyIsTenPercent ==
    (/\ last.tool = "generate_diff"
     /\ CountLines(last.content) = 20
     /\ Len(Deleted(str_lines(last.source), str_lines(last.output))) = 2) =>
        /\ HasHeader(last.report)
        /\ last.report[2] = 10
        /\ HasTip(last.report)

\* the lines of the hunks behind their signs, a line break between them
RECURSIVE JoinDiffLines(_)
JoinDiffLines(ls) ==
    IF ls = <<>> THEN <<>>
    ELSE <<Sign(Head(ls).kind)>> \o Head(ls).text
         \o (IF Len(ls) > 1 THEN <<"\n">> ELSE <<>>)
         \o JoinDiffLines(Tail(ls))

\* the report behind the marker line
DiffBody(report) ==
    LET at == CHOOSE k \in 1..Len(report) : report[k] = "===DIFF==="
    IN  Slice(report, at + 2, Len(report))

\* C16: the body under the marker is exactly the context, added and removed
\* lines of the line diff, in order, whatever their text, and the report
\* does not end with a line break.
C16_BodyIsTheDiffLines ==
    last.tool = "generate_diff" =>
        LET hunks == create_patch(str_lines(last.source), str_lines(last.output))
        IN  /\ DiffBody(last.report)
                  = JoinDiffLines(IF hunks = <<>> THEN <<>> ELSE hunks[1].lines)
            /\ last.report[Len(last.report)] # "\n"

\* byte offset pos of the text does not split a character
OnBoundary(text, pos) == pos \in {0, Len(text)} \/ (pos < Len(text) /\ text[pos + 1] # "c")

\* C17: format_errors always returns; the snippet of a violation is the
\* exact byte range when the range lies on character boundaries, otherwise
\* the range widened to the nearest boundary at or before its start and the
\* nearest at or after its end, so that it contains the range and only
\* whole characters; a range ending beyond the source gives the placeholder.
C17_SnippetOnBoundaries ==
    (last.tool = "format_errors" /\ ~last.is_valid) =>
        LET src == last.source
            from == last.violations[1][1]
            to == last.violations[1][2]
            lo == CHOOSE b \in 0..from :
                      OnBoundary(src, b) /\ \A m \in (b + 1)..from : ~OnBoundary(src, m)
            hi == CHOOSE b \in to..Len(src) :
                      OnBoundary(src, b) /\ \A m \in to..(b - 1) : ~OnBoundary(src, m)
        IN  /\ Len(last.response) = 1
            /\ IF to > Len(src) THEN last.response[1] = <<"<range out of bounds>">>
               ELSE /\ last.response[1] = Slice(src, lo + 1, hi)
                    /\ lo <= from /\ to <= hi
                    /\ (OnBoundary(src, from) /\ OnBoundary(src, to)) => (lo = from /\ hi = to)
                    /\ last.response[1] = <<>> \/ last.response[1][1] # "c"

\* a range that starts and ends inside characters was widened on both sides
C17_Witness ==
    /\ last.tool = "format_errors"
    /\ ~last.is_valid
    /\ last.violations[1][2] <= Len(last.source)
    /\ ~OnBoundary(last.source, last.violations[1][1])
    /\ ~OnBoundary(last.source, last.violations[1][2])
    /\ Len(last.response[1]) >= last.violations[1][2] - last.violations[1][1] + 2

\* the call loaded the candidates of a valid selector with the operation op
ResolverCallOf(op) ==
    /\ last # NoCall
    /\ last.tool = "find_edits"
    /\ last.editor.selector.operation = op
    /\ validate(last.editor.selector)

\* byte offsets of the matches of pat in src found scanning left to right
Matches(src, pat) == {match_indices(src, pat)[k] : k \in 1..Len(match_indices(src, pat))}

\* every byte offset at which pat occurs in src, overlapping or not
Occurrences(src, pat) == {i \in 0..Len(src) : OccursAt(src, pat, i)}

\* the spans <<start_byte, end_byte>> of a candidate list
Spans(edits) == {<<edits[k].position.start_byte, edits[k].position.end_byte>> : k \in 1..Len(edits)}

\* the pairs of an anchor match a and an end match e with e starting no
\* earlier than the end of a, as spans from a's start to e's end
OrderedPairs(src, anchor, end) ==
    {<<a, Some(e + Len(end))>> :
        <<a, e>> \in {p \in Matches(src, anchor) \X Matches(src, end) : p[2] >= p[1] + Len(anchor)}}

C22_EveryOccurrenceIsACandidate ==
    ResolverCallOf("ReplaceExact") =>
        LET src == last.editor.source_code
            anchor == last.editor.selector.anchor
            edits == last.found.edits
        IN  /\ last.found.ok <=> Occurrences(src, anchor) # {}
            /\ Spans(edits) = {<<i, Some(i + Len(anchor))>> : i \in Occurrences(src, anchor)}
            /\ \A j, k \in 1..Len(edits) :
                  j < k => edits[j].position.start_byte < edits[k].position.start_byte

\* C22 (amended): for ReplaceExact every match of the left-to-right scan of
\* the anchor, which skips an occurrence overlapping the match before it, is
\* the start of exactly one candidate spanning the match, the candidates are
\* in ascending order, and resolution fails if and only if the anchor does
\* not occur.
C22_EveryMatchIsACandidate ==
    ResolverCallOf("ReplaceExact") =>
        LET src == last.editor.source_code
            anchor == last.editor.selector.anchor
            edits == last.found.edits
        IN  /\ last.found.ok <=> Occurrences(src, anchor) # {}
            /\ ~last.found.ok => last.found.err = NotFound("Exact", anchor)
            /\ Spans(edits) = {<<i, Some(i + Len(anchor))>> : i \in Matches(src, anchor)}
            /\ Spans(edits) \subseteq
                  {<<i, Some(i + Len(anchor))>> : i \in Occurrences(src, anchor)}
            /\ \A j, k \in 1..Len(edits) :
                  j < k => edits[j].position.end_byte[1] <= edits[k].position.start_byte
            /\ \A k \in 1..Len(edits) : edits[k].content = last.editor.content

\* an anchor with two overlapping occurrences resolved to the first of them
C22_Witness ==
    /\ ResolverCallOf("ReplaceExact")
    /\ last.found.ok
    /\ Occurrences(last.editor.source_code, last.editor.selector.anchor)
          # Matches(last.editor.source_code, last.editor.selector.anchor)

\* the node an occurrence of key at byte offset f resolves to, if any
NodeCovering(src, key, f) ==
    IF IsSome(named_descendant_for_byte_range(src, f, f + Len(key)))
    THEN named_descendant_for_byte_range(src, f, f + Len(key))
    ELSE descendant_for_byte_range(src, f, f + Len(key))

\* a preview or commit of a valid ReplaceNode selector on a source that
\* passes the pre-check, with no pinned position, where no occurrence of the
\* lookup key resolves to a node
NoKeyResolves ==
    /\ EditorCall
    /\ last.editor[1].selector.operation = "ReplaceNode"
    /\ validate(last.editor[1].selector)
    /\ PassesValidation(last.source)
    /\ IsNone(last.editor[1].staged_edit)
    /\ \A f \in Matches(last.source, SearchKey(last.editor[1].selector)) :
          IsNone(NodeCovering(last.source, SearchKey(last.editor[1].selector), f))

C24_AppliedPositionsInSource ==
    EditorCall =>
        \A k \in 1..Len(last.applied) :
            LET pos == last.applied[k].edit.position
            IN  /\ pos.start_byte <= Len(last.source)
                /\ IsSome(pos.end_byte) =>
                      (pos.start_byte <= pos.end_byte[1] /\ pos.end_byte[1] <= Len(last.source))

\* the call ran Validator::validate
ValidatorCalled == last # NoCall /\ last.tool = "validate"

\* C25: the context query is executed only when the syntax collector returns
\* no error lines, and validate returns none if and only if there are no
\* error lines and either the language has no validation query or the query
\* yields no capture whose name starts with "invalid.".
C25_LayersShortCircuit ==
    ValidatorCalled =>
        /\ last.queried => last.errors = {}
        /\ last.queried <=> (last.errors = {} /\ IsSome(last.language.validation_query))
        /\ IsNone(last.report) <=>
              /\ last.errors = {}
              /\ \/ IsNone(last.language.validation_query)
                 \/ \A v \in QueryCaptures(last.content) : Head(v[1]) # "invalid"
        /\ (last.errors # {}) => last.report[1].report = "SyntaxErrors"

\* a text with a syntax error and a rejected placement, validated by a
\* language that has a query: the query is not run
C25_Witness ==
    /\ ValidatorCalled
    /\ IsSome(last.language.validation_query)
    /\ last.errors # {}
    /\ \E v \in QueryCaptures(last.content) : Head(v[1]) = "invalid"
    /\ ~last.queried
    /\ IsSome(last.report)

\* the indices of a set of naturals in ascending order
RECURSIVE Ascending(_)
Ascending(set) ==
    IF set = {} THEN <<>>
    ELSE LET least == CHOOSE x \in set : \A y \in set : x <= y
         IN  <<least>> \o Ascending(set \ {least})

\* C26: the syntax error report prints exactly the source lines whose index
\* lies within 3 lines before or 3 lines after some error line, each once and
\* in ascending order, numbered from 1, error lines marked "->" and context
\* lines not.
C26_ReportWindow ==
    (ValidatorCalled /\ last.errors # {}) =>
        LET ls == str_lines(last.content)
            window == {i \in 0..(Len(ls) - 1) :
                          \E e \in last.errors : e - 3 <= i /\ i <= e + 3}
            order == Ascending(window)
        IN  /\ Len(last.printed) = Len(order)
            /\ \A k \in 1..Len(order) :
                  /\ last.printed[k].display_index = order[k] + 1
                  /\ last.printed[k].line = ls[order[k] + 1]
                  /\ last.printed[k].marker = "->" <=> order[k] \in last.errors

\* C30: for TOML, whenever the parser reports at least one error,
\* collect_errors returns a non-empty list containing every line from each
\* error's start line through its end line, so validate rejects the text,
\* also when the error starts and ends on the same line.
C30_TomlErrorRejected ==
    (ValidatorCalled /\ last.language.editor = "toml" /\ last.parser_errors # <<>>) =>
        /\ last.errors # {}
        /\ \A k \in 1..Len(last.parser_errors) :
              \A l \in RowOf(last.content, last.parser_errors[k][1])
                          ..RowOf(last.content, last.parser_errors[k][2]) : l \in last.errors
        /\ IsSome(last.report)

\* a run of the loop is under way / has ended
LoopRunning == last # NoCall /\ last.pc = "loop"

LoopDone == last # NoCall /\ last.pc = "done"

\* the candidates applied so far are the pinned position, if any, followed by
\* the cached edits 1, 2, ... of the resolver, each once; only the last can
\* be valid; and a finished run stopped at a valid candidate, at a resolver
\* failure or with every candidate applied (or, before the loop, at the
\* pre-check)
LoopInOrder ==
    (last # NoCall) =>
        LET ed == last.editor
            p == IF IsSome(ed.staged_edit) /\ last.applied # <<>> THEN 1 ELSE 0
            found == find_edits(ed)
            n == Len(last.applied)
        IN  /\ Len(last.indices) = n
            /\ n <= (IF IsSome(ed.staged_edit) THEN 1 ELSE 0) + Len(found.edits)
            /\ \A k \in 1..n : last.indices[k] = (IF k <= p THEN 0 ELSE k - p)
            /\ p = 1 => last.applied[1].edit = Edit_new(ed.staged_edit[1], ed.content)
            /\ \A k \in (p + 1)..n : last.applied[k].edit = found.edits[k - p]
            /\ \A k \in 1..(n - 1) : ~last.applied[k].valid /\ ~last.applied[k].fault
            /\ last.pc = "loop" => n < MaxSteps /\ (n >= 1 => ~last.applied[n].valid)
            /\ (last.pc = "done" /\ last.result.error # "ApplyFailed") =>
                  \/ n = 0 /\ IsSome(prevalidate(ed))
                  \/ n >= 1 /\ last.applied[n].valid /\ last.result.output = last.applied[n].output
                  \/ /\ ~found.ok
                     /\ last.result.message = found.err
                     /\ n = (IF IsSome(ed.staged_edit) THEN 1 ELSE 0)
                  \/ /\ found.ok
                     /\ n = (IF IsSome(ed.staged_edit) THEN 1 ELSE 0) + Len(found.edits)
                     /\ IsNone(last.result.output)

C28_RetargetResolvesAnew ==
    (last.tool = "retarget_staged" /\ IsSome(last.editor)) =>
        LET ed == last.editor[1]
            found == find_edits(Editor_new(ed.content, ed.selector, last.source, None))
        IN  /\ ed.content = last.before[1].content
            /\ Len(last.applied) <= Len(found.edits)
            /\ \A k \in 1..Len(last.applied) : last.applied[k].edit = found.edits[k]
            /\ IsSome(staged) =>
                  /\ staged[1].content = last.before[1].content
                  /\ staged[1].file_path = last.before[1].file_path
                  /\ staged[1].language_name = last.before[1].language_name

\* C29: with two callers on one session, an operation a commit_staged took
\* is not staged again by a retarget_staged that was between its selector
\* update and its re-staging: the commits never take more operations than
\* the stage requests staged.
C29_TakenOnlyOncePerStage == last.takes <= last.stages

====
